---- MODULE Spec2Model ----
(***************************************************************************)
(* A model of Pyrit's compute scheduler (cpyrit.CPyrit), its worker cores  *)
(* (cpyrit.Core) and the RPC work broker (cpyrit.NetworkCore).             *)
(*                                                                         *)
(* Every body that the code runs under "with self.cv" between two calls of *)
(* cv.wait() is one atomic step.  A cv.wait(n) returns on a notification   *)
(* or after n seconds, so a waiting call may take its next step at any     *)
(* time.  Passwords, ESSIDs and batch sizes are scaled down to small sets. *)
(*                                                                         *)
(* Spec is the scheduler taken alone: its methods enqueue, dequeue,        *)
(* _gather, _scatter and _revoke called in any order by callers that are   *)
(* not told apart.  ThreadSpec is the scheduler with its threads: the host *)
(* thread and its waiting calls, the Core threads, the NetworkCore's RPC   *)
(* methods and its observer.  LiveSpec is ThreadSpec without failures and  *)
(* with the fairness of running threads.                                   *)
(*                                                                         *)
(* The second part is a model of the storage (storage.FSStorage): the      *)
(* password store with its buffer and its PAW2 buckets, the ESSID store    *)
(* with its PYR2 result sets, and the facade over both.  A string is the   *)
(* sequence of its characters, a file is what was written to it, and       *)
(* StoreSpec is the storage taken alone: its methods called in any order   *)
(* by one caller.                                                          *)
(***************************************************************************)
EXTENDS Integers, Sequences, FiniteSets, Bags, TLC

\* ------------------------------------------------------------------ bounds
\* Number of enqueue calls made on the scheduler taken alone (Spec).
MaxEnq == 3
\* Number of batches that cores hold at a time in Spec.
MaxHeld == 3
\* Number of enqueue calls the host thread makes (ThreadSpec).
MaxCalls == 2
\* Longest password list of one enqueue call.
MaxLen == 2
\* Largest desired_size a core or an RPC client asks _gather for.
MaxBuf == 2
\* Largest time (in units of the timeout) that passes between the reading of
\* the clock and the first test of the loop of a dequeue with a timeout.
MaxElapsed == 2

Essids == {"X", "Y"}
\* Seconds a solve() may take (Core.run measures it with time.time()).
Durations == {4}
\* Timeouts (in the same units) the host passes to dequeue(block=True, timeout=T);
\* in the model timeout 0 stands for None ("if timeout:" treats them alike).
Timeouts == {1}
\* core enumeration of CPyrit.__init__: ncpus CPU cores, and the network core
\* when config 'rpc_server' is 'true'.
Configs == {[ncpus |-> 2, rpc |-> FALSE], [ncpus |-> 1, rpc |-> TRUE]}
CpuIds == {"cpu1", "cpu2"}
NetId == "net"
\* uuids of the network clients that may register
Clients == {"n1"}

None == "None"
SystemError == "SystemError"
\* no batch held; no rpc_gather in progress
NoWu == <<>>
NoRpc == None
\* the arguments of no call (the host thread is in no call)
NoArgs == <<>>

\* The PMK of a password under an ESSID, kept symbolic: the pair itself.
PMK(essid, pw) == <<essid, pw>>

\* solve(essid, pwlist): one PMK per password, in order.
Solve(essid, pwlist) == [i \in 1..Len(pwlist) |-> PMK(essid, pwlist[i])]

Min(a, b) == IF a < b THEN a ELSE b

\* the password lists the host thread enqueues: p, q, p, ... of every length
HostPwLists == {[i \in 1..n |-> IF i % 2 = 1 THEN "p" ELSE "q"] : n \in 0..MaxLen}

\* the password lists enqueued on the scheduler taken alone
PwLists == HostPwLists \cup {<<"q">>}

\* ------------------------------------------------------- dicts and lists
\* A Python dict is a function with a finite domain.
EmptyDict == <<>>

DictPut(d, k, v) == [x \in (DOMAIN d) \cup {k} |-> IF x = k THEN v ELSE d[x]]

DictDel(d, k) == [x \in (DOMAIN d) \ {k} |-> d[x]]

\* sorted(d.keys())
RECURSIVE SortedKeys(_)
SortedKeys(S) ==
    IF S = {} THEN <<>>
    ELSE LET m == CHOOSE x \in S : \A y \in S : x <= y
         IN <<m>> \o SortedKeys(S \ {m})

Reverse(s) == [i \in 1..Len(s) |-> s[Len(s) + 1 - i]]

Tail1(s) == IF Len(s) = 0 THEN <<>> ELSE Tail(s)

RECURSIVE SumLens(_, _)
SumLens(d, keys) ==
    IF keys = {} THEN 0
    ELSE LET k == CHOOSE x \in keys : TRUE
         IN Len(d[k]) + SumLens(d, keys \ {k})

\* list.remove(x): drop the first element equal to x
RemoveFirst(q, x) ==
    IF \E i \in 1..Len(q) : q[i] = x
    THEN LET j == CHOOSE i \in 1..Len(q) : q[i] = x /\ \A k \in 1..(i-1) : q[k] # x
         IN SubSeq(q, 1, j - 1) \o SubSeq(q, j + 1, Len(q))
    ELSE q

\* list.insert(0, x)
InsertHead(q, x) == <<x>> \o q

VARIABLES
    \* CPyrit
    inqueue,      \* list of (essid, {ingress index: password list})
    outqueue,     \* {ingress index: list of results}
    workunits,    \* lengths of the outstanding enqueue calls
    slices,       \* {(essid, passwords): list of recorded fragment lists}
    in_idx,
    out_idx,
    cores,        \* the ids in self.cores
    \* Core threads
    cpc,          \* position of each core's run(): gather, solve, scatter, dead
    cwu,          \* the (essid, pwlist) a core holds
    resCount,
    compTime,
    \* NetworkCore
    clients,      \* registered client uuids
    cl_workunits, \* client.workunits of every client object
    rpc,          \* the client of the rpc_gather call in progress, or NoRpc
    used_uuids,   \* uuids handed out by rpc_register
    \* the host thread
    hpc,          \* idle, enq_wait, wfs_wait, deq_wait, deq_timed
    hargs,        \* arguments of the call in progress
    elapsed,      \* time.time() - t of the dequeue in progress
    ret,          \* how the last finished host call ended and what it returned
    host_last,    \* the enqueue the host matches the returned results with
    \* what the host keeps (as Pyrit_CLI.selftest does in its list workunits)
    host_wus,     \* (essid, passwords) of every enqueue not yet answered
    n_enq,        \* number of enqueue calls made
    \* the batches returned by _gather and not yet given to _scatter or
    \* _revoke, when the callers are not told apart (Spec)
    held

schedvars == <<inqueue, outqueue, workunits, slices, in_idx, out_idx>>
corevars == <<cores, cpc, cwu, resCount, compTime>>
netvars == <<clients, cl_workunits, rpc, used_uuids>>
hostvars == <<hpc, hargs, elapsed, ret, host_last>>
histvars == <<host_wus, n_enq>>

\* The storage (storage.FSStorage with its FSPasswordStore and FSEssidStore)
VARIABLES
    \* PasswordStore
    pwbuffer,     \* self.pwbuffer: {H1: bucket of buffered passwords}
    unique_check,
    pwfiles,      \* FSPasswordStore.pwfiles: {key: H1 directory}
    pwdisk,       \* the .pw files: {path: buffer}
    h1_of,        \* hash(passwd) & 0xFF as an index of h1_list
    \* FSEssidStore
    essids,       \* self.essids: {essid: {key: path of the .pyr file}}
    essid_dirs,   \* the directories under the store's base path
    essid_files,  \* the files in them: {(directory, name): content}
    \* the caller
    sret,         \* the last call of a storage method and how it ended
    n_ops,        \* number of calls made
    written,      \* {key: the passwords _flush_bucket packed under that key}
    scrubbed      \* the ESSIDs that were deleted while they had result sets

pwvars == <<pwbuffer, unique_check, pwfiles, pwdisk, h1_of, written>>
essidvars == <<essids, essid_dirs, essid_files, scrubbed>>
storevars == <<pwvars, essidvars, sret, n_ops>>
cpyritvars == <<schedvars, corevars, netvars, hostvars, histvars, held>>

\* A PYR2 buffer that is read by itself (storage.BasePYR_Buffer)
VARIABLES
    pyrbuf,       \* the buffer handed to unpack
    pyrkind,      \* the part of it that was altered after pack wrote it
    pyrret        \* how unpack and the iteration over the results ended

codecvars == <<pyrbuf, pyrkind, pyrret>>

\* The packet parser (pckttools.PacketParser)
VARIABLES
    air,              \* self.air: {AP MAC: AccessPoint with its stations
                      \* and their key frames}
    pcktcount,
    dot11_pcktcount,
    new_auths,        \* the calls of new_auth_callback made so far
    pret              \* what getAuthentications returned, if no packet
                      \* was parsed since

pcktvars == <<air, pcktcount, dot11_pcktcount, new_auths, pret>>

\* The handshake cracker (pckttools.EAPOLCracker and its threads)
VARIABLES
    cworkers,     \* len(self.workers)
    cq,           \* self.queue: the batches put and not yet got
    unfinished,   \* the queue's count of items not marked task_done()
    shallStop,    \* of each worker
    wpc,          \* where each worker is in run()
    wbatch,       \* the batch a worker got
    wsolution,    \* worker.solution
    numSolved,    \* worker.numSolved
    csolution,    \* EAPOLCracker.solution
    chpc,         \* where the caller of enqueue() and join() is
    chi,          \* the worker its loop looks at
    tested,       \* the batches that were given to solve
    enqueued      \* the batches that were passed to enqueue()

crackvars == <<cworkers, cq, unfinished, shallStop, wpc, wbatch, wsolution,
               numSolved, csolution, chpc, chi, tested, enqueued>>

\* The relay of a serving process (cpyrit.RPCServer and its RPCClients)
VARIABLES
    rclients,         \* RPCServer.clients: the uuids of the clients
    pending_clients,  \* RPCServer.pending_clients
    enqueue_lock,     \* the client whose gatherer holds RPCServer.enqueue_lock
    calive,           \* of each RPCClient: not created, run, stopping, dead
    gpc,              \* where each RPCGatherer is
    gwu,              \* the workunit a gatherer received
    spc,              \* where RPCServer.run is
    solvedPMKs,       \* the results RPCServer.run dequeued
    cresults,         \* RPCClient.results, as scattered to it so far
    owners,           \* of each outstanding enqueue, the client it is from
    sent,             \* of each client, the workunits it enqueued
    rlast             \* the last pop of pending_clients: the uuid popped
                      \* and the enqueue the results were dequeued for

relayvars == <<rclients, pending_clients, enqueue_lock, calive, gpc, gwu, spc,
               solvedPMKs, cresults, owners, sent, rlast>>

\* One core that calibrates itself (cpyrit.Core.run)
VARIABLES
    coreclass,    \* the class of the core: its minBufferSize, maxBufferSize
    bbuffersize,   \* Core.buffersize
    bresCount,    \* Core.resCount
    bcompTime,    \* Core.compTime, in ticks of the clock
    callCount,    \* Core.callCount
    bpc,          \* where run() is
    blen,         \* len(res) of the batch at hand
    nruns         \* the batches gathered so far

adaptvars == <<coreclass, bbuffersize, bresCount, bcompTime, callCount, bpc, blen, nruns>>

\* A buffered writer and its one caller (cpyrit_util.AsyncFileWriter)
VARIABLES
    shallstop,    \* AsyncFileWriter.shallstop
    hasstopped,   \* AsyncFileWriter.hasstopped
    excp,         \* AsyncFileWriter.excp
    fbuf,         \* the value of AsyncFileWriter.buf
    filehndl,     \* what was written to AsyncFileWriter.filehndl
    fpc,          \* where run() is
    fdata,        \* the data of run()
    upc,          \* the call the caller waits in
    udata,        \* the data of the caller's write()
    waking,       \* the waiting threads that were notified
    accepted,     \* what the write() calls that returned have taken
    atclose,      \* accepted, when close() was called last
    wasrunning,   \* not shallstop, when close() was called last
    lastcall,     \* the call that ended last and how
    nwrites,      \* the calls of write()
    failed        \* the file handle raised

writervars == <<shallstop, hasstopped, excp, fbuf, filehndl, fpc, fdata, upc, udata,
                waking, accepted, atclose, wasrunning, lastcall, nwrites, failed>>
\* what neither the scheduler nor the storage touches
extvars == <<codecvars, pcktvars, crackvars, relayvars, adaptvars, writervars>>
\* what the reading of a buffer, the parser and the cracker leave alone
CodecOthers == <<cpyritvars, storevars, pcktvars, crackvars, relayvars, adaptvars, writervars>>
PcktOthers == <<cpyritvars, storevars, codecvars, crackvars, relayvars, adaptvars, writervars>>
CrackOthers == <<cpyritvars, storevars, codecvars, pcktvars, relayvars, adaptvars, writervars>>
\* no core is looked at by itself
AdaptIdle ==
    /\ coreclass = <<>>
    /\ bbuffersize = 0
    /\ bresCount = 0
    /\ bcompTime = 0
    /\ callCount = 0
    /\ bpc = "none"
    /\ blen = 0
    /\ nruns = 0
\* the uuids of the clients a relay may have
RelayUuids == {"c1", "c2"}
\* RPCServer.__init__ (lines 698-710): no client was added
RelayIdle ==
    /\ rclients = {}
    /\ pending_clients = <<>>
    /\ enqueue_lock = "None"
    /\ calive = [c \in RelayUuids |-> "none"]
    /\ gpc = [c \in RelayUuids |-> "none"]
    /\ gwu = [c \in RelayUuids |-> <<>>]
    /\ spc = "dequeue"
    /\ solvedPMKs = <<>>
    /\ cresults = [c \in RelayUuids |-> <<>>]
    /\ owners = <<>>
    /\ sent = [c \in RelayUuids |-> <<>>]
    /\ rlast = <<>>
\* no buffer is read by itself
CodecIdle ==
    /\ pyrbuf = <<>>
    /\ pyrkind = "None"
    /\ pyrret = <<>>
\* no packet is parsed
PcktIdle ==
    /\ air = <<>>
    /\ pcktcount = 0
    /\ dot11_pcktcount = 0
    /\ new_auths = <<>>
    /\ pret = <<>>
\* there is no cracker
CrackIdle ==
    /\ cworkers = 0
    /\ cq = <<>>
    /\ unfinished = 0
    /\ shallStop = <<>>
    /\ wpc = <<>>
    /\ wbatch = <<>>
    /\ wsolution = <<>>
    /\ numSolved = <<>>
    /\ csolution = "None"
    /\ chpc = "idle"
    /\ chi = 0
    /\ tested = <<>>
    /\ enqueued = <<>>
\* there is no writer
WriterIdle ==
    /\ shallstop = FALSE
    /\ hasstopped = FALSE
    /\ excp = "None"
    /\ fbuf = <<>>
    /\ filehndl = <<>>
    /\ fpc = "none"
    /\ fdata = <<>>
    /\ upc = "none"
    /\ udata = <<>>
    /\ waking = {}
    /\ accepted = <<>>
    /\ atclose = <<>>
    /\ wasrunning = FALSE
    /\ lastcall = <<"none", "none">>
    /\ nwrites = 0
    /\ failed = FALSE
\* neither a relay nor a core nor a writer by itself
RestIdle == RelayIdle /\ AdaptIdle /\ WriterIdle
ExtInit == CodecIdle /\ PcktIdle /\ CrackIdle /\ RestIdle

vars == <<schedvars, corevars, netvars, hostvars, histvars, held, storevars, extvars>>

\* --------------------------------------------------------------- storage
\* config 'workunit_size' (storage.MAX_WORKUNIT_SIZE), scaled down
MAX_WORKUNIT_SIZE == 2
\* Number of calls of storage methods in one run.
MaxOps == 6
\* store_password accepts lengths MinPwLen..MaxPwLen (line 312)
MinPwLen == 8
MaxPwLen == 63
\* create_essid accepts lengths MinEssidLen..MaxEssidLen (line 502)
MinEssidLen == 1
MaxEssidLen == 32

LF == "\n"
CR == "\r"
\* a string of n characters c; a string is the sequence of its characters
Rep(c, n) == [i \in 1..n |-> c]
\* the valid passwords of the model, as store_password buffers them
ValidPws == {Rep("a", 8), Rep("b", 63), Rep("a", 8) \o <<LF>> \o Rep("a", 8)}
\* what a caller passes to store_password: the valid passwords, one of them
\* also as the line of a file, and passwords that are too short or too long
PwInputs ==
    ValidPws \cup {Rep("a", 7), Rep("a", 8) \o <<CR, LF>>, Rep("b", 64)}
\* two of PasswordStore.h1_list
H1s == {"00", "01"}
\* ESSIDs passed to the ESSID store; "" has the invalid length 0
EssidInputs == {"X", ""}

\* passwd.strip('\r\n'), line 311
RECURSIVE LStrip(_)
LStrip(s) ==
    IF s # <<>> /\ Head(s) \in {CR, LF} THEN LStrip(Tail(s)) ELSE s

RECURSIVE RStrip(_)
RStrip(s) ==
    IF s # <<>> /\ s[Len(s)] \in {CR, LF}
    THEN RStrip(SubSeq(s, 1, Len(s) - 1))
    ELSE s

Strip(s) == RStrip(LStrip(s))

\* '\n'.join(pws)
RECURSIVE Join(_)
Join(pws) ==
    IF pws = <<>> THEN <<>>
    ELSE IF Len(pws) = 1 THEN pws[1]
    ELSE pws[1] \o <<LF>> \o Join(Tail(pws))

\* buf.split('\n')
RECURSIVE Split(_)
Split(buf) ==
    IF \A i \in 1..Len(buf) : buf[i] # LF THEN <<buf>>
    ELSE LET i == CHOOSE j \in 1..Len(buf) :
                     buf[j] = LF /\ \A k \in 1..(j - 1) : buf[k] # LF
         IN <<SubSeq(buf, 1, i - 1)>> \o Split(SubSeq(buf, i + 1, Len(buf)))

\* zlib.compress and zlib.decompress: lossless
Compress(b) == <<"zlib", b>>
Decompress(z) == z[2]
\* MD5, taken to be free of collisions on the buffers of the model
Md5(b) == <<"md5", b>>

\* PAW2_Buffer.pack, lines 234-238
PAW2Pack(collection) ==
    LET b == Compress(Join(collection))
    IN [key |-> Md5(b), buf |-> [magic |-> "PAW2", digest |-> Md5(b), body |-> b]]

\* PAW2_Buffer.unpack, lines 240-249 (the digest of a buffer the store wrote
\* matches)
PAW2Unpack(buf) ==
    [collection |-> Split(Decompress(buf.body)), key |-> Md5(buf.body)]

\* PYR2_Buffer.pack, lines 204-215; results is a list of (password, PMK)
PYR2Pack(essid, results) ==
    LET pws == [i \in 1..Len(results) |-> results[i][1]]
        pmks == [i \in 1..Len(results) |-> results[i][2]]
        pwbuf == Compress(Join(pws))
    IN [magic |-> "PYR2", essid |-> essid, numElems |-> Len(pws),
        digest |-> Md5(<<essid, pmks, pwbuf>>),
        pmkbuffer |-> pmks, pwbuffer |-> pwbuf]

\* the orders in which a set may be iterated
Orders(S) ==
    {s \in [1..Cardinality(S) -> S] : \A i, j \in 1..Cardinality(S) : s[i] = s[j] => i = j}

SeqToSet(s) == {s[i] : i \in 1..Len(s)}

\* the first 8 hex digits of MD5(essid) that name the ESSID's directory,
\* taken to differ between the ESSIDs of the model
EssidRoot(essid) == <<"md5_8", essid>>
\* the names of the files in an ESSID's directory
EssidFile == <<"essid">>
PyrFile(key) == <<"pyr", key>>
\* the path pw_h1/key.pw of a bucket under the password store's base path
PwPath(pw_h1, key) == <<<<"password", pw_h1>>, <<"pw", key>>>>

\* (set if self.unique_check else list)()
EmptyBucket == IF unique_check THEN {} ELSE <<>>
\* len(pw_bucket)
BucketLen(bucket) == IF unique_check THEN Cardinality(bucket) ELSE Len(bucket)

\* FSPasswordStore.__getitem__, lines 543-557: the collection of the file
\* pwfiles[key]/key.pw
PwGet(files, disk, key) == PAW2Unpack(disk[PwPath(files[key], key)]).collection

\* The passwords the stored buckets of directory pw_h1 hold, as
\* _flush_bucket reads them at lines 573-575
StoredIn(files, disk, pw_h1) ==
    UNION {SeqToSet(PwGet(files, disk, key)) : key \in {k \in DOMAIN files : files[k] = pw_h1}}

\* The stores after FSStorage.__init__ (lines 363-371) on an empty base
\* path: PasswordStore.__init__ (lines 282-284), FSPasswordStore.__init__
\* (lines 514-527) and FSEssidStore.__init__ (lines 393-410)
StoreConstructed(uc, hf) ==
    /\ pwbuffer = EmptyDict
    /\ unique_check = uc
    /\ pwfiles = EmptyDict
    /\ pwdisk = EmptyDict
    /\ h1_of = hf
    /\ essids = EmptyDict
    /\ essid_dirs = {}
    /\ essid_files = EmptyDict
    /\ sret = [op |-> None, arg |-> <<>>, err |-> None, val |-> <<>>, unlinked |-> {}]
    /\ n_ops = 0
    /\ written = EmptyDict
    /\ scrubbed = {}

\* ---------------------------------------------------------------- CPyrit
\* CPyrit._check_cores raises when this holds
SomeDead == \E c \in cores : cpc[c] = "dead"

\* CPyrit._len
RECURSIVE QueueLen(_)
QueueLen(q) ==
    IF q = <<>> THEN 0
    ELSE SumLens(Head(q).pwdict, DOMAIN Head(q).pwdict) + QueueLen(Tail(q))

\* CPyrit.getPeakPerformance is sum(resCount / compTime) over the cores with
\* compTime # 0: a rational, kept as numerator and denominator.
RECURSIVE PeakFrac(_, _, _)
PeakFrac(cs, rc, ct) ==
    IF cs = {} THEN <<0, 1>>
    ELSE LET c == CHOOSE x \in cs : TRUE
             r == PeakFrac(cs \ {c}, rc, ct)
         IN IF ct[c] = 0 THEN r
            ELSE <<r[1] * ct[c] + rc[c] * r[2], r[2] * ct[c]>>

getPeakPerformance == PeakFrac(cores, resCount, compTime)

\* the loop condition of enqueue's wait:
\* getPeakPerformance() == 0 or _len() > getPeakPerformance() * 5
EnqueueMustWait ==
    LET p == getPeakPerformance
    IN p[1] = 0 \/ QueueLen(inqueue) * p[2] > p[1] * 5


\* enqueue without the test of line 469: every call appends an entry
EnqueueAlwaysAppend(q, essid, passwordlist, idx) ==
    Append(q, [essid |-> essid, pwdict |-> DictPut(EmptyDict, idx, passwordlist)])

\* CPyrit.enqueue, lines 468-474: coalesce with the last entry of the same
\* ESSID or append a new entry
EnqueueAppend(q, essid, passwordlist, idx) ==
    IF Len(q) > 0 /\ q[Len(q)].essid = essid
    THEN [q EXCEPT ![Len(q)].pwdict = DictPut(@, idx, passwordlist)]
    ELSE Append(q, [essid |-> essid, pwdict |-> DictPut(EmptyDict, idx, passwordlist)])

\* GatherItem without the test of lines 541-542 that ends the batch at
\* another ESSID
GatherItemAnyEssid(st, essid, idx, pwslice) ==
    IF Len(pwslice) = 0 THEN st
    ELSE LET n == Min(Len(pwslice), IF st.restsize > 0 THEN st.restsize ELSE 0)
             rest == SubSeq(pwslice, n + 1, Len(pwslice))
             d1 == DictDel(st.pwdict, idx)
         IN [pwdict |-> IF Len(rest) > 0 THEN DictPut(d1, idx + n, rest) ELSE d1,
             passwords |-> st.passwords \o SubSeq(pwslice, 1, n),
             pwslices |-> Append(st.pwslices, <<idx, n>>),
             cur_essid |-> IF st.cur_essid = None THEN essid ELSE st.cur_essid,
             restsize |-> st.restsize - n,
             brk |-> (st.restsize - n <= 0)]

\* GatherItem that takes the whole slice (line 543 without [:restsize])
GatherItemWhole(st, essid, idx, pwslice) ==
    IF Len(pwslice) = 0 THEN st
    ELSE IF st.cur_essid # None /\ st.cur_essid # essid
         THEN [st EXCEPT !.brk = TRUE]
    ELSE [pwdict |-> DictDel(st.pwdict, idx),
          passwords |-> st.passwords \o pwslice,
          pwslices |-> Append(st.pwslices, <<idx, Len(pwslice)>>),
          cur_essid |-> essid,
          restsize |-> st.restsize - Len(pwslice),
          brk |-> (st.restsize - Len(pwslice) <= 0)]

\* CPyrit._gather, lines 538-552: the body of the inner loop for one
\* (idx, pwslice) of the entry's sorted items
GatherItem(st, essid, idx, pwslice) ==
    IF Len(pwslice) = 0 THEN st
    ELSE IF st.cur_essid # None /\ st.cur_essid # essid
         THEN [st EXCEPT !.brk = TRUE]
    ELSE LET n == Min(Len(pwslice), IF st.restsize > 0 THEN st.restsize ELSE 0)
             newslice == SubSeq(pwslice, 1, n)
             rest == SubSeq(pwslice, n + 1, Len(pwslice))
             d1 == DictDel(st.pwdict, idx)
             d2 == IF Len(rest) > 0 THEN DictPut(d1, idx + n, rest) ELSE d1
         IN [pwdict |-> d2,
             passwords |-> st.passwords \o newslice,
             pwslices |-> Append(st.pwslices, <<idx, n>>),
             cur_essid |-> essid,
             restsize |-> st.restsize - n,
             brk |-> (st.restsize - n <= 0)]

\* the inner loop "for idx, pwslice in sorted(pwdict.items())": it runs over
\* the items as they were when the loop began
RECURSIVE GatherInner(_, _, _, _)
GatherInner(st, essid, items, keys) ==
    IF keys = <<>> \/ st.brk THEN st
    ELSE GatherInner(GatherItem(st, essid, Head(keys), items[Head(keys)]),
                     essid, items, Tail(keys))

\* the outer loop "for essid, pwdict in self.inqueue", lines 536-556.  The
\* list iterator keeps a position: after inqueue.remove() of the entry at the
\* position, the entry that followed it is passed over.
RECURSIVE GatherOuter(_, _, _)
GatherOuter(q, i, st) ==
    IF i > Len(q) THEN [queue |-> q, st |-> st]
    ELSE LET entry == q[i]
             st1 == GatherInner([st EXCEPT !.pwdict = entry.pwdict, !.brk = FALSE],
                                entry.essid, entry.pwdict,
                                SortedKeys(DOMAIN entry.pwdict))
             q1 == [q EXCEPT ![i].pwdict = st1.pwdict]
             q2 == IF DOMAIN st1.pwdict = {} THEN RemoveFirst(q1, q1[i]) ELSE q1
         IN IF st1.restsize <= 0 THEN [queue |-> q2, st |-> st1]
            ELSE GatherOuter(q2, i + 1, st1)

\* One pass of _gather's "while True" over the queue q for desired_size:
\* the queue it leaves, the batch (essid, passwords) and its fragments.
Gather(q, desired_size) ==
    LET r == GatherOuter(q, 1, [pwdict |-> EmptyDict, passwords |-> <<>>,
                                pwslices |-> <<>>, cur_essid |-> None,
                                restsize |-> desired_size, brk |-> FALSE])
    IN [queue |-> r.queue, essid |-> r.st.cur_essid,
        passwords |-> r.st.passwords, pwslices |-> r.st.pwslices]

\* a slice table that keeps one recording per key: the recording of a batch
\* replaces the one of an identical batch that is still outstanding
SlicesOverwrite(sl, wu, pwslices) == DictPut(sl, wu, <<pwslices>>)

\* _gather, lines 558-562: self.slices[wu].append(pwslices)
SlicesAppend(sl, wu, pwslices) ==
    IF wu \in DOMAIN sl THEN [sl EXCEPT ![wu] = Append(@, pwslices)]
    ELSE DictPut(sl, wu, <<pwslices>>)

\* _scatter, lines 579-581: self.slices[wu].pop(0)
SlicesPopFirst(sl, wu) ==
    IF Len(sl[wu]) = 1 THEN DictDel(sl, wu) ELSE [sl EXCEPT ![wu] = Tail(@)]

\* _revoke, lines 604-606: self.slices[wu].pop()
SlicesPopLast(sl, wu) ==
    IF Len(sl[wu]) = 1 THEN DictDel(sl, wu)
    ELSE [sl EXCEPT ![wu] = SubSeq(@, 1, Len(@) - 1)]

\* ScatterWrite that does not advance ptr (line 585): every fragment gets
\* the first results
RECURSIVE ScatterWriteNoPtr(_, _, _, _)
ScatterWriteNoPtr(oq, frags, results, ptr) ==
    IF frags = <<>> THEN oq
    ELSE ScatterWriteNoPtr(DictPut(oq, Head(frags)[1], SubSeq(results, 1, Head(frags)[2])),
                           Tail(frags), results, ptr)

\* _scatter, lines 582-585: write the results of every fragment at its index
RECURSIVE ScatterWrite(_, _, _, _)
ScatterWrite(oq, frags, results, ptr) ==
    IF frags = <<>> THEN oq
    ELSE LET idx == Head(frags)[1]
             length == Head(frags)[2]
         IN ScatterWrite(DictPut(oq, idx, SubSeq(results, ptr + 1, ptr + length)),
                         Tail(frags), results, ptr + length)

\* _scatter without the merge of lines 586-591
MergeOutNone(oq) == oq

\* _scatter, lines 586-591: merge every region with the region that starts
\* where it ends, from the highest index down, the highest itself left out
RECURSIVE MergeFrom(_, _)
MergeFrom(oq, keys) ==
    IF keys = <<>> THEN oq
    ELSE LET idx == Head(keys)
             res == oq[idx]
             o_idx == idx + Len(res)
         IN IF o_idx \in DOMAIN oq
            THEN MergeFrom(DictDel(DictPut(oq, idx, res \o oq[o_idx]), o_idx), Tail(keys))
            ELSE MergeFrom(oq, Tail(keys))

MergeOut(oq) == MergeFrom(oq, Tail1(Reverse(SortedKeys(DOMAIN oq))))

\* the out-buffer after _scatter of results for the fragments frags
Scatter(oq, frags, results) == MergeOut(ScatterWrite(oq, frags, results, 0))

\* RevokeWrite that does not advance ptr (line 616): every fragment gets the
\* first passwords of the batch
RECURSIVE RevokeWriteNoPtr(_, _, _, _)
RevokeWriteNoPtr(d, frags, passwordlist, ptr) ==
    IF frags = <<>> THEN d
    ELSE RevokeWriteNoPtr(DictPut(d, Head(frags)[1], SubSeq(passwordlist, 1, Head(frags)[2])),
                          Tail(frags), passwordlist, ptr)

\* _revoke, lines 613-616: write the passwords back at their indices
RECURSIVE RevokeWrite(_, _, _, _)
RevokeWrite(d, frags, passwordlist, ptr) ==
    IF frags = <<>> THEN d
    ELSE LET idx == Head(frags)[1]
             length == Head(frags)[2]
         IN RevokeWrite(DictPut(d, idx, SubSeq(passwordlist, ptr + 1, ptr + length)),
                        Tail(frags), passwordlist, ptr + length)

\* _revoke, lines 607-616: the queue after re-inserting the batch at the head
Revoke(q, frags, essid, passwordlist) ==
    IF Len(q) > 0 /\ q[1].essid = essid
    THEN [q EXCEPT ![1].pwdict = RevokeWrite(@, frags, passwordlist, 0)]
    ELSE InsertHead(q, [essid |-> essid,
                        pwdict |-> RevokeWrite(EmptyDict, frags, passwordlist, 0)])

\* dequeue, lines 492-493 negated: the results of the oldest outstanding
\* enqueue are complete
Complete ==
    /\ workunits # <<>>
    /\ out_idx \in DOMAIN outqueue
    /\ Len(outqueue[out_idx]) >= workunits[1]

\* dequeue returning the whole region at out_idx, not its first wu_length
DequeueResultsAll == outqueue[out_idx]

\* dequeue, line 511: the results returned
DequeueResults == SubSeq(outqueue[out_idx], 1, workunits[1])

\* dequeue, lines 509-513: the out-buffer after the results were taken
DequeueOut ==
    LET reslist == outqueue[out_idx]
        wu_length == workunits[1]
    IN DictPut(DictDel(outqueue, out_idx), out_idx + wu_length,
               SubSeq(reslist, wu_length + 1, Len(reslist)))


\* ------------------------------------------------- the scheduler's methods
\* Each is the part of the method that runs with the lock held and changes
\* the scheduler; the variables of the callers are left to the actions.

\* a host call returns val (or raises why); of is the enqueue that the host
\* pops from its own list when it gets results (selftest, line 823)
Returns(why, val, of) ==
    /\ ret' = [why |-> why, val |-> val]
    /\ host_last' = of

\* enqueue, lines 468-475, once the wait is over
EnqueueDo(essid, passwordlist) ==
    /\ inqueue' = EnqueueAppend(inqueue, essid, passwordlist, in_idx)
    /\ workunits' = Append(workunits, Len(passwordlist))
    /\ in_idx' = in_idx + Len(passwordlist)
    /\ host_wus' = Append(host_wus, <<essid, passwordlist>>)
    /\ n_enq' = n_enq + 1
    /\ Returns("done", <<>>, NoWu)
    /\ UNCHANGED <<outqueue, slices, out_idx>>

\* a dequeue that returns None and drops the oldest outstanding enqueue
DequeueReturnDrop(why) ==
    /\ Returns(why, <<>>, NoWu)
    /\ workunits' = Tail1(workunits)
    /\ UNCHANGED <<inqueue, outqueue, slices, in_idx, out_idx, histvars>>

\* dequeue returns None (why: empty, nonblock, timeout) or raises the
\* dead-core error (why: SystemError) without touching the scheduler
DequeueReturn(why) ==
    /\ Returns(why, <<>>, NoWu)
    /\ UNCHANGED <<schedvars, histvars>>

\* dequeue, lines 508-516: take the results of the oldest enqueue
DequeueTake ==
    /\ outqueue' = DequeueOut
    /\ out_idx' = out_idx + workunits[1]
    /\ workunits' = Tail(workunits)
    /\ host_wus' = Tail1(host_wus)
    /\ n_enq' = n_enq
    /\ Returns("results", DequeueResults, Head(host_wus))
    /\ UNCHANGED <<inqueue, slices, in_idx>>

\* _gather, lines 557-564, when the pass over the queue found passwords:
\* record the fragments and return the batch
GatherCommit(g) ==
    /\ inqueue' = g.queue
    /\ slices' = SlicesAppend(slices, <<g.essid, g.passwords>>, g.pwslices)
    /\ UNCHANGED <<outqueue, workunits, in_idx, out_idx>>

\* _scatter(essid, passwords, results), lines 577-592
ScatterDo(wu, results) ==
    /\ wu \in DOMAIN slices
    /\ slices' = SlicesPopFirst(slices, wu)
    /\ outqueue' = Scatter(outqueue, Head(slices[wu]), results)
    /\ UNCHANGED <<inqueue, workunits, in_idx, out_idx>>

\* _revoke(essid, passwords), lines 602-616, on the pair (queue, slices)
RevokeDo(qs, wu) ==
    [queue |-> Revoke(qs.queue, qs.slices[wu][Len(qs.slices[wu])], wu[1], wu[2]),
     slices |-> SlicesPopLast(qs.slices, wu)]

\* --------------------------------------------- the scheduler taken alone
\* The state after CPyrit.__init__ (lines 357-403); no thread is told apart.
CPyritInit ==
    /\ inqueue = <<>>
    /\ outqueue = EmptyDict
    /\ workunits = <<>>
    /\ slices = EmptyDict
    /\ in_idx = 0
    /\ out_idx = 0
    /\ cores = {}
    /\ cpc = [c \in CpuIds \cup {NetId} |-> IF c = NetId THEN "serve" ELSE "gather"]
    /\ cwu = [c \in CpuIds |-> NoWu]
    /\ resCount = [c \in CpuIds \cup {NetId} |-> 0]
    /\ compTime = [c \in CpuIds \cup {NetId} |-> 0]
    /\ clients = {}
    /\ cl_workunits = [n \in Clients |-> <<>>]
    /\ rpc = NoRpc
    /\ used_uuids = {}
    /\ hpc = "idle"
    /\ hargs = NoArgs
    /\ elapsed = 0
    /\ ret = [why |-> None, val |-> <<>>]
    /\ host_last = NoWu
    /\ host_wus = <<>>
    /\ n_enq = 0
    /\ held = EmptyBag

\* the scheduler of a process whose storage is not used
Init ==
    /\ CPyritInit
    /\ StoreConstructed(TRUE, [pw \in ValidPws |-> "00"])
    /\ ExtInit

threadvars == <<corevars, netvars, hpc, hargs, elapsed>>

\* enqueue(essid, passwords): its wait (lines 463-467) changes nothing and
\* ends when the measured performance allows
CallEnqueue(essid, passwords) ==
    /\ n_enq < MaxEnq
    /\ EnqueueDo(essid, passwords)
    /\ UNCHANGED <<threadvars, held, storevars, extvars>>

\* dequeue(block): results when they are complete, else None (at once or
\* after a wait that changed nothing)
CallDequeue ==
    /\ IF workunits = <<>> THEN DequeueReturn("empty")
       ELSE IF Complete THEN DequeueTake
       ELSE DequeueReturn("nonblock")
    /\ UNCHANGED <<threadvars, held, storevars, extvars>>

\* _gather(desired_size) by any core
CallGather(desired_size) ==
    /\ BagCardinality(held) < MaxHeld
    /\ LET g == Gather(inqueue, desired_size)
       IN /\ g.passwords # <<>>
          /\ GatherCommit(g)
          /\ held' = held (+) SetToBag({<<g.essid, g.passwords>>})
    /\ UNCHANGED <<threadvars, hostvars, histvars, storevars, extvars>>

\* _scatter(essid, passwords, results) of a batch a core holds
CallScatter(wu) ==
    /\ BagIn(wu, held)
    /\ ScatterDo(wu, Solve(wu[1], wu[2]))
    /\ held' = held (-) SetToBag({wu})
    /\ UNCHANGED <<threadvars, hostvars, histvars, storevars, extvars>>

\* _revoke(essid, passwords) of a batch a core holds
CallRevoke(wu) ==
    /\ BagIn(wu, held)
    /\ LET qs == RevokeDo([queue |-> inqueue, slices |-> slices], wu)
       IN /\ inqueue' = qs.queue
          /\ slices' = qs.slices
    /\ held' = held (-) SetToBag({wu})
    /\ UNCHANGED <<outqueue, workunits, in_idx, out_idx, threadvars, hostvars, histvars, storevars, extvars>>

Next ==
    \/ \E e \in Essids, pws \in PwLists : CallEnqueue(e, pws)
    \/ CallDequeue
    \/ \E n \in 1..MaxBuf : CallGather(n)
    \/ \E wu \in BagToSet(held) : CallScatter(wu)
    \/ \E wu \in BagToSet(held) : CallRevoke(wu)

Spec == Init /\ [][Next]_vars

\* ------------------------------------------ the scheduler with its threads
\* CPyrit.__init__ (lines 357-403) started the cores it enumerated:
\* Core.__init__ and NetworkCore.__init__ call self.start()
ThreadInit ==
    /\ inqueue = <<>>
    /\ outqueue = EmptyDict
    /\ workunits = <<>>
    /\ slices = EmptyDict
    /\ in_idx = 0
    /\ out_idx = 0
    /\ \E cfg \in Configs :
          cores = {c \in CpuIds : (c = "cpu1" /\ cfg.ncpus >= 1) \/ (c = "cpu2" /\ cfg.ncpus >= 2)}
                  \cup (IF cfg.rpc THEN {NetId} ELSE {})
    /\ cpc = [c \in CpuIds \cup {NetId} |-> IF c = NetId THEN "serve" ELSE "gather"]
    /\ cwu = [c \in CpuIds |-> NoWu]
    /\ resCount = [c \in CpuIds \cup {NetId} |-> 0]
    /\ compTime = [c \in CpuIds \cup {NetId} |-> 0]
    /\ clients = {}
    /\ cl_workunits = [n \in Clients |-> <<>>]
    /\ rpc = NoRpc
    /\ used_uuids = {}
    /\ hpc = "idle"
    /\ hargs = NoArgs
    /\ elapsed = 0
    /\ ret = [why |-> None, val |-> <<>>]
    /\ host_last = NoWu
    /\ host_wus = <<>>
    /\ n_enq = 0
    /\ held = EmptyBag
    /\ StoreConstructed(TRUE, [pw \in ValidPws |-> "00"])
    /\ ExtInit

\* a host call returns
HostIdle ==
    /\ hpc' = "idle"
    /\ hargs' = NoArgs

\* ------------------------------------------------------- the host thread
\* enqueue, lines 462-467: the call; the block argument is not read
EnqueueCall(essid, passwords, block) ==
    /\ hpc = "idle"
    /\ n_enq < MaxCalls
    /\ IF QueueLen(inqueue) > 0 /\ EnqueueMustWait
       THEN /\ hpc' = "enq_wait"
            /\ hargs' = [essid |-> essid, passwords |-> passwords, block |-> block]
            /\ UNCHANGED <<schedvars, histvars, ret, host_last>>
       ELSE EnqueueDo(essid, passwords) /\ UNCHANGED <<hpc, hargs>>
    /\ UNCHANGED <<corevars, netvars, elapsed, held, storevars, extvars>>

\* enqueue, lines 464-467: cv.wait(2) returned
EnqueueWake ==
    /\ hpc = "enq_wait"
    /\ IF SomeDead
       THEN /\ Returns(SystemError, <<>>, NoWu)
            /\ UNCHANGED <<schedvars, histvars>>
       ELSE /\ ~EnqueueMustWait
            /\ EnqueueDo(hargs.essid, hargs.passwords)
    /\ HostIdle
    /\ UNCHANGED <<corevars, netvars, elapsed, held, storevars, extvars>>

\* waitForSchedule, lines 434-438: the call
WaitForScheduleCall(maxBufferSize) ==
    /\ hpc = "idle"
    /\ IF QueueLen(inqueue) > maxBufferSize
       THEN /\ hpc' = "wfs_wait"
            /\ hargs' = [maxBufferSize |-> maxBufferSize]
            /\ UNCHANGED <<ret, host_last>>
       ELSE /\ Returns("done", <<>>, NoWu)
            /\ UNCHANGED <<hpc, hargs>>
    /\ UNCHANGED <<schedvars, corevars, netvars, histvars, elapsed, held, storevars, extvars>>

\* waitForSchedule, lines 436-438: cv.wait(2) returned
WaitForScheduleWake ==
    /\ hpc = "wfs_wait"
    /\ IF SomeDead
       THEN Returns(SystemError, <<>>, NoWu)
       ELSE /\ QueueLen(inqueue) <= hargs.maxBufferSize
            /\ Returns("done", <<>>, NoWu)
    /\ HostIdle
    /\ UNCHANGED <<schedvars, corevars, netvars, histvars, elapsed, held, storevars, extvars>>

\* dequeue, lines 487-516, from taking the lock to the first wait or return;
\* waited is time.time() - t when line 497 is reached
DequeueBody(block, timeout, waited) ==
    IF workunits = <<>> THEN DequeueReturn("empty") /\ HostIdle
    ELSE IF Complete THEN DequeueTake /\ HostIdle
    ELSE IF SomeDead THEN DequeueReturn(SystemError) /\ HostIdle
    ELSE IF ~block THEN DequeueReturn("nonblock") /\ HostIdle
    ELSE IF timeout = 0
         THEN /\ hpc' = "deq_wait"
              /\ hargs' = [block |-> block, timeout |-> timeout]
              /\ UNCHANGED <<schedvars, histvars, ret, host_last>>
    ELSE IF waited > timeout
         THEN /\ hpc' = "deq_timed"
              /\ hargs' = [block |-> block, timeout |-> timeout]
              /\ UNCHANGED <<schedvars, histvars, ret, host_last>>
    ELSE DequeueReturn("timeout") /\ HostIdle

\* dequeue(block, timeout=None): t is not read
DequeueCall(block) ==
    /\ hpc = "idle"
    /\ DequeueBody(block, 0, 0)
    /\ UNCHANGED <<corevars, netvars, elapsed, held, storevars, extvars>>

\* dequeue(True, timeout): t = time.time() at line 486, and the time waited
\* has passed when the lock is held and the body runs
DequeueTimedCall(timeout, waited) ==
    /\ hpc = "idle"
    /\ DequeueBody(TRUE, timeout, waited)
    /\ elapsed' = IF hpc' = "deq_timed" THEN waited ELSE 0
    /\ UNCHANGED <<corevars, netvars, held, storevars, extvars>>

\* dequeue, lines 490-505: cv.wait(3) returned
DequeueWake ==
    /\ hpc = "deq_wait"
    /\ \/ Complete /\ DequeueTake
       \/ ~Complete /\ SomeDead /\ DequeueReturn(SystemError)
    /\ HostIdle
    /\ UNCHANGED <<corevars, netvars, elapsed, held, storevars, extvars>>

\* dequeue, lines 497-501: cv.wait(0.1) returned in the loop
\* "while time.time() - t > timeout"; the time that passed is added
DequeueTimedWake ==
    /\ hpc = "deq_timed"
    /\ \/ Complete /\ DequeueTake /\ HostIdle /\ elapsed' = 0
       \/ /\ ~Complete
          /\ elapsed < MaxElapsed + 1
          /\ elapsed' = elapsed + 1
          /\ UNCHANGED <<schedvars, histvars, hpc, hargs, ret, host_last>>
    /\ UNCHANGED <<corevars, netvars, held, storevars, extvars>>

\* ------------------------------------------------------ the core threads
\* Core.run, line 98: _gather(self.buffersize) returns a batch
CoreGather(c, desired_size) ==
    /\ c \in cores /\ c # NetId
    /\ cpc[c] = "gather"
    /\ ~SomeDead
    /\ LET g == Gather(inqueue, desired_size)
       IN /\ g.passwords # <<>>
          /\ GatherCommit(g)
          /\ cwu' = [cwu EXCEPT ![c] = <<g.essid, g.passwords>>]
    /\ cpc' = [cpc EXCEPT ![c] = "solve"]
    /\ UNCHANGED <<cores, resCount, compTime, netvars, hostvars, histvars, held, storevars, extvars>>

\* Core.run, line 98: _check_cores raises inside _gather (line 535) and the
\* exception ends the thread
CoreGatherDead(c) ==
    /\ c \in cores /\ c # NetId
    /\ cpc[c] = "gather"
    /\ SomeDead
    /\ cpc' = [cpc EXCEPT ![c] = "dead"]
    /\ UNCHANGED <<schedvars, cores, cwu, resCount, compTime, netvars, hostvars, histvars, held, storevars, extvars>>

\* Core.run, lines 99-107: solve() took d seconds; the statistics are updated
CoreSolve(c, d) ==
    /\ c \in cores /\ c # NetId
    /\ cpc[c] = "solve"
    /\ compTime' = [compTime EXCEPT ![c] = @ + d]
    /\ resCount' = [resCount EXCEPT ![c] = @ + Len(cwu[c][2])]
    /\ cpc' = [cpc EXCEPT ![c] = "scatter"]
    /\ UNCHANGED <<schedvars, cores, cwu, netvars, hostvars, histvars, held, storevars, extvars>>

\* Core.run, lines 100-101: solve() raises or the assertion fails; run() has
\* no handler, the thread ends
CoreDie(c) ==
    /\ c \in cores /\ c # NetId
    /\ cpc[c] = "solve"
    /\ cpc' = [cpc EXCEPT ![c] = "dead"]
    /\ UNCHANGED <<schedvars, cores, cwu, resCount, compTime, netvars, hostvars, histvars, held, storevars, extvars>>

\* Core.run, line 108: _scatter(essid, pwlist, res)
CoreScatter(c) ==
    /\ c \in cores /\ c # NetId
    /\ cpc[c] = "scatter"
    /\ ScatterDo(cwu[c], Solve(cwu[c][1], cwu[c][2]))
    /\ cwu' = [cwu EXCEPT ![c] = NoWu]
    /\ cpc' = [cpc EXCEPT ![c] = "gather"]
    /\ UNCHANGED <<cores, resCount, compTime, netvars, hostvars, histvars, held, storevars, extvars>>

\* ------------------------------------------------------- the NetworkCore
\* The XML-RPC server serves one request at a time (rpc = NoRpc between
\* requests); the NetworkObserver runs beside it.

\* rpc_register, lines 279-287
RpcRegister(n) ==
    /\ NetId \in cores
    /\ rpc = NoRpc
    /\ n \notin used_uuids
    /\ clients' = clients \cup {n}
    /\ used_uuids' = used_uuids \cup {n}
    /\ cl_workunits' = [cl_workunits EXCEPT ![n] = <<>>]
    /\ UNCHANGED <<schedvars, corevars, rpc, hostvars, histvars, held, storevars, extvars>>

\* rpc_gather, line 301: _get_client found the client
RpcGatherBegin(n) ==
    /\ NetId \in cores
    /\ rpc = NoRpc
    /\ n \in clients
    /\ rpc' = n
    /\ UNCHANGED <<schedvars, corevars, clients, cl_workunits, used_uuids, hostvars, histvars, held, storevars, extvars>>

\* rpc_gather, lines 302-308: _gather(buffersize, 3.0) raises, returns a batch
\* that is appended to the workunits of the client object found at line 301,
\* or times out on an empty queue
RpcGatherEnd(buffersize) ==
    /\ rpc # NoRpc
    /\ LET g == Gather(inqueue, buffersize)
       IN IF SomeDead \/ g.passwords = <<>>
          THEN UNCHANGED <<schedvars, cl_workunits>>
          ELSE /\ GatherCommit(g)
               /\ cl_workunits' = [cl_workunits EXCEPT ![rpc] =
                                      Append(@, <<g.essid, g.passwords>>)]
    /\ rpc' = NoRpc
    /\ UNCHANGED <<corevars, clients, used_uuids, hostvars, histvars, held, storevars, extvars>>

\* rpc_scatter, lines 311-328; valid says whether the buffer passes the
\* digest and the size check.  compTime becomes the time since the start.
RpcScatter(n, valid, t) ==
    /\ NetId \in cores
    /\ rpc = NoRpc
    /\ n \in clients
    /\ cl_workunits[n] # <<>>
    /\ cl_workunits' = [cl_workunits EXCEPT ![n] = Tail(@)]
    /\ LET wu == Head(cl_workunits[n])
       IN IF valid
          THEN /\ t >= compTime[NetId]
               /\ compTime' = [compTime EXCEPT ![NetId] = t]
               /\ resCount' = [resCount EXCEPT ![NetId] = @ + Len(wu[2])]
               /\ ScatterDo(wu, Solve(wu[1], wu[2]))
          ELSE UNCHANGED <<schedvars, compTime, resCount>>
    /\ UNCHANGED <<cores, cpc, cwu, clients, rpc, used_uuids, hostvars, histvars, held, storevars, extvars>>

\* rpc_revoke, lines 331-333: the workunit is popped, then line 333 reads the
\* undefined name 'password' and raises NameError
RpcRevoke(n) ==
    /\ NetId \in cores
    /\ rpc = NoRpc
    /\ n \in clients
    /\ cl_workunits[n] # <<>>
    /\ cl_workunits' = [cl_workunits EXCEPT ![n] = SubSeq(@, 1, Len(@) - 1)]
    /\ UNCHANGED <<schedvars, corevars, clients, rpc, used_uuids, hostvars, histvars, held, storevars, extvars>>

\* rpc_unregister, lines 293-294: _revoke every workunit of the client
RECURSIVE RevokeAll(_, _)
RevokeAll(qs, wus) ==
    IF wus = <<>> THEN qs
    ELSE RevokeAll(RevokeDo(qs, Head(wus)), Tail(wus))

\* rpc_unregister, lines 290-296.  Of the client object that leaves
\* self.clients the model keeps no workunits: they were all revoked.
Unregister(n) ==
    /\ n \in clients
    /\ LET qs == RevokeAll([queue |-> inqueue, slices |-> slices], cl_workunits[n])
       IN /\ inqueue' = qs.queue
          /\ slices' = qs.slices
    /\ clients' = clients \ {n}
    /\ cl_workunits' = [cl_workunits EXCEPT ![n] = <<>>]
    /\ UNCHANGED <<outqueue, workunits, in_idx, out_idx, corevars, used_uuids, hostvars, histvars, held, storevars, extvars>>

\* the RPC method unregister, called by the client
RpcUnregister(n) ==
    /\ rpc = NoRpc
    /\ Unregister(n)
    /\ UNCHANGED rpc

\* NetworkObserver.run, lines 222-226: the client was silent for 60 seconds
Watchdog(n) ==
    /\ Unregister(n)
    /\ UNCHANGED rpc

\* ------------------------------------------------------------ the system
HostStep ==
    \/ \E e \in Essids, pws \in HostPwLists, b \in BOOLEAN : EnqueueCall(e, pws, b)
    \/ EnqueueWake
    \/ WaitForScheduleCall(0)
    \/ WaitForScheduleWake
    \/ \E b \in BOOLEAN : DequeueCall(b)
    \/ \E t \in Timeouts, w \in 0..MaxElapsed : DequeueTimedCall(t, w)
    \/ DequeueWake
    \/ DequeueTimedWake

CoreStep ==
    \/ \E c \in CpuIds, n \in 1..MaxBuf : CoreGather(c, n)
    \/ \E c \in CpuIds : CoreGatherDead(c)
    \/ \E c \in CpuIds, d \in Durations : CoreSolve(c, d)
    \/ \E c \in CpuIds : CoreDie(c)
    \/ \E c \in CpuIds : CoreScatter(c)

NetStep ==
    \/ \E n \in Clients : RpcRegister(n)
    \/ \E n \in Clients : RpcGatherBegin(n)
    \/ \E b \in 1..MaxBuf : RpcGatherEnd(b)
    \/ \E n \in Clients, v \in BOOLEAN, t \in Durations : RpcScatter(n, v, t)
    \/ \E n \in Clients : RpcRevoke(n)
    \/ \E n \in Clients : RpcUnregister(n)
    \/ \E n \in Clients : Watchdog(n)

ThreadNext == HostStep \/ CoreStep \/ NetStep

ThreadSpec == ThreadInit /\ [][ThreadNext]_vars

\* ---------------------------------------------------- cores that keep on
\* The system while every core stays alive, every RPC buffer is valid and no
\* client falls silent: the steps of ThreadNext without those of a failure.
LiveHostStep ==
    \/ \E e \in Essids, pws \in HostPwLists, b \in BOOLEAN : EnqueueCall(e, pws, b)
    \/ EnqueueWake
    \/ DequeueCall(TRUE)
    \/ DequeueWake

\* Core.run's loop of one core
CoreRun(c) ==
    \/ \E n \in 1..MaxBuf : CoreGather(c, n)
    \/ \E d \in Durations : CoreSolve(c, d)
    \/ CoreScatter(c)

LiveNetStep ==
    \/ \E n \in Clients : RpcRegister(n)
    \/ \E n \in Clients : RpcGatherBegin(n)
    \/ \E b \in 1..MaxBuf : RpcGatherEnd(b)
    \/ \E n \in Clients, t \in Durations : RpcScatter(n, TRUE, t)
    \/ \E n \in Clients : RpcUnregister(n)

LiveNext == LiveHostStep \/ (\E c \in CpuIds : CoreRun(c)) \/ LiveNetStep

\* A running thread takes its next step: Core.run and dequeue wait with a
\* timeout and are notified, and the RPC server answers the request it
\* began; a client that holds a batch sends its results at some time.
\* The steps that call _gather or _scatter are enabled by a plain condition
\* (_gather returns a batch exactly when the queue holds a password) and
\* their fairness is written out with it.
CanRpcScatter(n) == rpc = NoRpc /\ n \in clients /\ cl_workunits[n] # <<>>

Fairness ==
    /\ \A c \in CpuIds :
          /\ []<>(c \notin cores \/ cpc[c] # "gather" \/ QueueLen(inqueue) = 0)
          /\ WF_vars(\E d \in Durations : CoreSolve(c, d))
          /\ []<>(cpc[c] # "scatter")
    /\ WF_vars(DequeueWake)
    /\ []<>(rpc = NoRpc)
    /\ \A n \in Clients :
          \/ <>[](~CanRpcScatter(n))
          \/ []<><<\E t \in Durations : RpcScatter(n, TRUE, t)>>_vars

LiveSpec == ThreadInit /\ [][LiveNext]_vars /\ Fairness

\* ------------------------------------------------------ the password store
\* what _flush_bucket changes
PwState == [pwfiles |-> pwfiles, pwdisk |-> pwdisk, written |-> written]

\* _flush_bucket, lines 578-584: the bucket is packed in the order of its
\* iteration and written as pw_h1/key.pw
FlushWrite(st, pw_h1, collection) ==
    LET p == PAW2Pack(collection)
    IN [pwfiles |-> DictPut(st.pwfiles, p.key, pw_h1),
        pwdisk |-> DictPut(st.pwdisk, PwPath(pw_h1, p.key), p.buf),
        written |-> DictPut(st.written, p.key,
                            SeqToSet(collection) \cup
                            (IF p.key \in DOMAIN st.written
                             THEN st.written[p.key] ELSE {}))]

\* _flush_bucket, lines 572-577: what difference_update leaves of the bucket
\* after every stored bucket of the directory pw_h1 was read
DiffStored(st, pw_h1, bucket) == bucket \ StoredIn(st.pwfiles, st.pwdisk, pw_h1)

\* FSPasswordStore._flush_bucket, lines 569-584: the states it may leave
FlushBucket(st, pw_h1, bucket) ==
    IF BucketLen(bucket) = 0 THEN {st}
    ELSE IF unique_check
         THEN LET rest == DiffStored(st, pw_h1, bucket)
              IN IF rest = {} THEN {st}
                 ELSE {FlushWrite(st, pw_h1, c) : c \in Orders(rest)}
         ELSE {FlushWrite(st, pw_h1, bucket)}

\* flush_buffer, lines 300-302, over the keys of self.pwbuffer in the order hs
RECURSIVE FlushBins(_, _)
FlushBins(sts, hs) ==
    IF hs = <<>> THEN sts
    ELSE FlushBins(UNION {FlushBucket(st, Head(hs), pwbuffer[Head(hs)]) : st \in sts},
                   Tail(hs))

\* flush_buffer, lines 294-302
FlushBufferDo ==
    /\ \E hs \in Orders(DOMAIN pwbuffer) :
          \E st \in FlushBins({PwState}, hs) :
             /\ pwfiles' = st.pwfiles
             /\ pwdisk' = st.pwdisk
             /\ written' = st.written
    /\ pwbuffer' = [h \in DOMAIN pwbuffer |-> EmptyBucket]

\* a length test that turns a password of MaxPwLen characters away
PwLenBelowMax(passwd) == Len(passwd) >= MinPwLen /\ Len(passwd) < MaxPwLen

\* store_password, line 312: the length the password must have
PwLenOk(passwd) == ~(Len(passwd) < MinPwLen \/ Len(passwd) > MaxPwLen)

\* how a call of a storage method ended: its arguments, the exception it
\* raised or None, and what it returned (<<>> for None)
Ended(op, arg, err, val) ==
    /\ sret' = [op |-> op, arg |-> arg, err |-> err, val |-> val, unlinked |-> {}]
    /\ n_ops' = n_ops + 1

\* the same for a call that returned None after os.unlink of the files
EndedUnlink(op, arg, err, files) ==
    /\ sret' = [op |-> op, arg |-> arg, err |-> err, val |-> <<>>, unlinked |-> files]
    /\ n_ops' = n_ops + 1

\* PasswordStore.store_password, lines 304-323
StorePassword(passwd) ==
    /\ n_ops < MaxOps
    /\ LET pw == Strip(passwd)
       IN IF ~PwLenOk(pw)
          THEN UNCHANGED <<pwbuffer, pwfiles, pwdisk, written>>
          ELSE LET pw_h1 == h1_of[pw]
                   old == IF pw_h1 \in DOMAIN pwbuffer
                          THEN pwbuffer[pw_h1] ELSE EmptyBucket
                   pw_bucket == IF unique_check THEN old \cup {pw}
                                ELSE Append(old, pw)
               IN IF BucketLen(pw_bucket) >= MAX_WORKUNIT_SIZE
                  THEN /\ \E st \in FlushBucket(PwState, pw_h1, pw_bucket) :
                             /\ pwfiles' = st.pwfiles
                             /\ pwdisk' = st.pwdisk
                             /\ written' = st.written
                       /\ pwbuffer' = DictPut(pwbuffer, pw_h1, EmptyBucket)
                  ELSE /\ pwbuffer' = DictPut(pwbuffer, pw_h1, pw_bucket)
                       /\ UNCHANGED <<pwfiles, pwdisk, written>>
    /\ Ended("store_password", <<passwd>>, None, <<>>)
    /\ UNCHANGED <<unique_check, h1_of, essidvars, cpyritvars, extvars>>

\* PasswordStore.flush_buffer called by the importer
FlushBuffer ==
    /\ n_ops < MaxOps
    /\ FlushBufferDo
    /\ Ended("flush_buffer", <<>>, None, <<>>)
    /\ UNCHANGED <<unique_check, h1_of, essidvars, cpyritvars, extvars>>

\* an exit that flushes whatever ended the scope
ExitFlushesAlways(exc_type) == TRUE

\* __exit__, line 290
ExitFlushes(exc_type) == exc_type = None

\* PasswordStore.__exit__, lines 289-292: the with-block ended, with the
\* exception exc_type or with None; False is returned, so that an exception
\* is raised again by the with statement
ExitScope(exc_type) ==
    /\ n_ops < MaxOps
    /\ IF ExitFlushes(exc_type) THEN FlushBufferDo
       ELSE UNCHANGED <<pwbuffer, pwfiles, pwdisk, written>>
    /\ Ended("exit", <<exc_type>>, exc_type, <<FALSE>>)
    /\ UNCHANGED <<unique_check, h1_of, essidvars, cpyritvars, extvars>>

\* FSPasswordStore.__delitem__, lines 559-563
PwDelItem(key) ==
    /\ pwfiles' = DictDel(pwfiles, key)
    /\ pwdisk' = DictDel(pwdisk, PwPath(pwfiles[key], key))
    /\ written' = DictDel(written, key)

\* del passwords[key] called on the password store
PwDelete(key) ==
    /\ n_ops < MaxOps
    /\ IF key \in DOMAIN pwfiles
       THEN /\ PwDelItem(key)
            /\ EndedUnlink("pw_delete", <<key>>, None, {PwPath(pwfiles[key], key)})
       ELSE /\ UNCHANGED <<pwfiles, pwdisk, written>>
            /\ Ended("pw_delete", <<key>>, "KeyError", <<>>)
    /\ UNCHANGED <<pwbuffer, unique_check, h1_of, essidvars, cpyritvars, extvars>>

\* --------------------------------------------------------- the ESSID store
\* a result set: the list of (password, PMK) that belongs to a password list
Results(essid, pws) == [i \in 1..Len(pws) |-> <<pws[i], PMK(essid, pws[i])>>]

\* BasePYR_Buffer.unpack and _unpack, lines 131-175, of a PYR2 buffer: what
\* iterating over the result set gives
PYR2Read(buf) ==
    LET pws == Split(Decompress(buf.pwbuffer))
    IN IF Len(pws) # buf.numElems
       THEN [err |-> "AssertionError", results |-> <<>>]
       ELSE IF Md5(<<buf.essid, buf.pmkbuffer, buf.pwbuffer>>) # buf.digest
       THEN [err |-> "DigestError", results |-> <<>>]
       ELSE [err |-> None,
             results |-> [i \in 1..buf.numElems |-> <<pws[i], buf.pmkbuffer[i]>>]]

\* a test for the directory that never finds it
RootMissing(root) == FALSE

\* os.path.exists(root), line 505
RootExists(root) == root \in essid_dirs

\* FSEssidStore.create_essid, lines 497-509
CreateEssid(essid) ==
    /\ n_ops < MaxOps
    /\ IF Len(essid) < MinEssidLen \/ Len(essid) > MaxEssidLen
       THEN /\ UNCHANGED essidvars
            /\ Ended("create_essid", <<essid>>, "ValueError", <<>>)
       ELSE LET root == EssidRoot(essid)
            IN /\ IF ~RootExists(root)
                  THEN /\ essid_dirs' = essid_dirs \cup {root}
                       /\ essid_files' = DictPut(essid_files, <<root, EssidFile>>, essid)
                       /\ essids' = DictPut(essids, essid, EmptyDict)
                       /\ UNCHANGED scrubbed
                  ELSE UNCHANGED essidvars
               /\ Ended("create_essid", <<essid>>, None, <<>>)
    /\ UNCHANGED <<pwvars, cpyritvars, extvars>>

\* FSEssidStore.__setitem__, lines 437-446
EssidPut(essid, key, results) ==
    /\ n_ops < MaxOps
    /\ IF essid \notin DOMAIN essids
       THEN /\ UNCHANGED essidvars
            /\ Ended("put", <<essid, key>>, "KeyError", <<>>)
       ELSE LET filename == <<EssidRoot(essid), PyrFile(key)>>
            IN /\ essid_files' = DictPut(essid_files, filename, PYR2Pack(essid, results))
               /\ essids' = [essids EXCEPT ![essid] = DictPut(@, key, filename)]
               /\ UNCHANGED <<essid_dirs, scrubbed>>
               /\ Ended("put", <<essid, key>>, None, <<>>)
    /\ UNCHANGED <<pwvars, cpyritvars, extvars>>

\* FSEssidStore.__getitem__, lines 412-435; a lookup that fails raises
\* KeyError, which "except IndexError" does not catch
EssidGet(essid, key) ==
    /\ n_ops < MaxOps
    /\ IF essid \notin DOMAIN essids \/ key \notin DOMAIN essids[essid]
       THEN Ended("get", <<essid, key>>, "KeyError", <<>>)
       ELSE LET r == PYR2Read(essid_files[essids[essid][key]])
            IN Ended("get", <<essid, key>>, r.err, r.results)
    /\ UNCHANGED <<pwvars, essidvars, cpyritvars, extvars>>

\* the files of no result set
PyrPathsNone(pyrfiles) == {}

\* pyrfiles.itervalues(), line 472
PyrPaths(pyrfiles) == {pyrfiles[k] : k \in DOMAIN pyrfiles}

\* FSEssidStore.__delitem__ of an ESSID, lines 467-475; os.rmdir fails when
\* a file is left in the directory
EssidDelete(essid) ==
    /\ n_ops < MaxOps
    /\ IF essid \notin DOMAIN essids
       THEN /\ UNCHANGED essidvars
            /\ Ended("delete_essid", <<essid>>, "KeyError", <<>>)
       ELSE LET essid_root == EssidRoot(essid)
                gone == PyrPaths(essids[essid]) \cup {<<essid_root, EssidFile>>}
                files == [p \in (DOMAIN essid_files) \ gone |-> essid_files[p]]
                empty == \A p \in DOMAIN files : p[1] # essid_root
            IN /\ essids' = DictDel(essids, essid)
               /\ essid_files' = files
               /\ essid_dirs' = IF empty THEN essid_dirs \ {essid_root} ELSE essid_dirs
               /\ scrubbed' = IF essids[essid] # EmptyDict
                               THEN scrubbed \cup {essid} ELSE scrubbed
               /\ EndedUnlink("delete_essid", <<essid>>,
                              IF empty THEN None ELSE "OSError", gone)
    /\ UNCHANGED <<pwvars, cpyritvars, extvars>>

\* FSEssidStore.__delitem__ of (essid, key), lines 462-466
EssidDelKey(st, essid, key) ==
    [essids |-> [st.essids EXCEPT ![essid] = DictDel(@, key)],
     essid_files |-> DictDel(st.essid_files, st.essids[essid][key])]

\* del essids[essid, key] called on the ESSID store
EssidDeleteKey(essid, key) ==
    /\ n_ops < MaxOps
    /\ IF essid \notin DOMAIN essids \/ key \notin DOMAIN essids[essid]
       THEN /\ UNCHANGED essidvars
            /\ Ended("delete_result", <<essid, key>>, "KeyError", <<>>)
       ELSE LET st == EssidDelKey([essids |-> essids, essid_files |-> essid_files],
                                  essid, key)
            IN /\ essids' = st.essids
               /\ essid_files' = st.essid_files
               /\ UNCHANGED <<essid_dirs, scrubbed>>
               /\ EndedUnlink("delete_result", <<essid, key>>, None, {essids[essid][key]})
    /\ UNCHANGED <<pwvars, cpyritvars, extvars>>

\* ------------------------------------------------------ the storage facade
\* no ESSID
EssidsWithKeyNone(key) == {}

\* Storage.__delitem__, lines 343-344: the ESSIDs for which containskey
\* (lines 477-481) is true
EssidsWithKey(key) == {e \in DOMAIN essids : key \in DOMAIN essids[e]}

\* Storage.__delitem__, line 345, for every ESSID of es
RECURSIVE DelKeyAll(_, _, _)
DelKeyAll(st, es, key) ==
    IF es = {} THEN st
    ELSE LET e == CHOOSE x \in es : TRUE
         IN DelKeyAll(EssidDelKey(st, e, key), es \ {e}, key)

\* Storage.__delitem__, lines 342-346
StorageDelete(key) ==
    /\ n_ops < MaxOps
    /\ LET st == DelKeyAll([essids |-> essids, essid_files |-> essid_files],
                           EssidsWithKey(key), key)
       IN /\ essids' = st.essids
          /\ essid_files' = st.essid_files
          /\ UNCHANGED <<essid_dirs, scrubbed>>
    /\ LET pyrs == {essids[e][key] : e \in EssidsWithKey(key)}
       IN IF key \in DOMAIN pwfiles
          THEN /\ PwDelItem(key)
               /\ EndedUnlink("delete", <<key>>, None, pyrs \cup {PwPath(pwfiles[key], key)})
          ELSE /\ UNCHANGED <<pwfiles, pwdisk, written>>
               /\ EndedUnlink("delete", <<key>>, "KeyError", pyrs)
    /\ UNCHANGED <<pwbuffer, unique_check, h1_of, cpyritvars, extvars>>

\* ------------------------------------------------------- the storage alone
\* the key of a bucket that was never stored
UnknownKey == PAW2Pack(<<Rep("c", 8)>>).key
\* the keys a caller passes: those it got from the stores and one unknown
KeyInputs ==
    DOMAIN pwfiles \cup UNION {DOMAIN essids[e] : e \in DOMAIN essids} \cup {UnknownKey}
\* the result sets a caller puts under a key: the results of the key's
\* bucket, as "batch" computes them, and those of another password list
PutInputs(essid, key) ==
    {Results(essid, <<Rep("a", 8)>>)}
    \cup (IF key \in DOMAIN pwfiles
          THEN {Results(essid, PwGet(pwfiles, pwdisk, key))} ELSE {})
\* what a with-block may end with
ExcInputs == {None, "IOError"}

\* a fresh storage with either setting of unique_check and any hash
StoreInit ==
    /\ CPyritInit
    /\ ExtInit
    /\ \E uc \in BOOLEAN, hf \in [ValidPws -> H1s] : StoreConstructed(uc, hf)

StoreNext ==
    \/ \E passwd \in PwInputs : StorePassword(passwd)
    \/ FlushBuffer
    \/ \E exc_type \in ExcInputs : ExitScope(exc_type)
    \/ \E key \in KeyInputs : PwDelete(key)
    \/ \E essid \in EssidInputs : CreateEssid(essid)
    \/ \E essid \in EssidInputs, key \in KeyInputs :
          \E results \in PutInputs(essid, key) : EssidPut(essid, key, results)
    \/ \E essid \in EssidInputs, key \in KeyInputs : EssidGet(essid, key)
    \/ \E essid \in EssidInputs : EssidDelete(essid)
    \/ \E essid \in EssidInputs, key \in KeyInputs : EssidDeleteKey(essid, key)
    \/ \E key \in KeyInputs : StorageDelete(key)

StoreSpec == StoreInit /\ [][StoreNext]_vars

\* ------------------------------------------------ a PYR2 buffer by itself
\* the bytes of one PMK in the buffer (unpack, line 149)
PmkSize == 32
\* the lengths in bytes a compressed password list may have: shorter than
\* a PMK, and as long as one
StreamLens == {11, 32}
\* bytes that zlib.decompress does not accept as a stream
BadStream == <<"bad", <<>>>>
\* the ESSIDs and the password lists of the buffers
CodecEssids == {"X", "Y"}
CodecPws ==
    {<<Rep("a", 8)>>, <<Rep("b", 63)>>, <<Rep("a", 8), Rep("b", 63)>>,
     <<Rep("b", 63), Rep("a", 8)>>}

\* BasePYR_Buffer.unpack, lines 131-153, of the bytes PYR2_Buffer.pack laid
\* out as header, PMKs and compressed passwords, the last zlen bytes long:
\* the PMK region is the numElems * 32 bytes after the header and the
\* password region is whatever follows it. PMK bytes in front of the
\* stream, and a stream without its first bytes, are taken not to be a
\* stream that zlib accepts.
PYR2Unpack(b, zlen) ==
    LET npmk == Len(b.pmkbuffer)
        n == b.numElems
        over == Min(PmkSize * (n - npmk), zlen)
    IN IF b.magic \notin {"PYR2", "PYRT"}
       THEN [err |-> "StorageError", buf |-> b]
       ELSE IF n <= npmk
       THEN [err |-> None,
             buf |-> [b EXCEPT !.pmkbuffer = SubSeq(b.pmkbuffer, 1, n),
                               !.pwbuffer = IF n = npmk THEN b.pwbuffer ELSE BadStream]]
       ELSE [err |-> IF over % PmkSize # 0 THEN "StorageError" ELSE None,
             buf |-> [b EXCEPT !.pmkbuffer = b.pmkbuffer \o <<<<"cut", b.pwbuffer>>>>,
                               !.pwbuffer = BadStream]]

\* unpack of a buffer and the iteration over its results: _unpack (lines
\* 155-175) decompresses the passwords first, then asserts their number,
\* then compares the digest
PYR2Load(b, zlen) ==
    LET u == PYR2Unpack(b, zlen)
    IN IF u.err # None THEN [err |-> u.err, results |-> <<>>]
       ELSE IF u.buf.pwbuffer[1] # "zlib"
       THEN [err |-> "zlib.error", results |-> <<>>]
       ELSE PYR2Read(u.buf)

\* the buffer pack returns for a result set, before anything read it
CodecInit ==
    /\ CPyritInit
    /\ StoreConstructed(TRUE, [pw \in ValidPws |-> "00"])
    /\ \E essid \in CodecEssids, pws \in CodecPws, zlen \in StreamLens :
          pyrbuf = [b |-> PYR2Pack(essid, Results(essid, pws)), zlen |-> zlen]
    /\ pyrkind = None
    /\ pyrret = <<>>
    /\ PcktIdle
    /\ CrackIdle
    /\ RestIdle

\* bytes of the stored buffer change before it is read
Alter(kind, b) ==
    /\ pyrkind = None
    /\ pyrret = <<>>
    /\ pyrbuf' = [pyrbuf EXCEPT !.b = b]
    /\ pyrkind' = kind
    /\ UNCHANGED <<pyrret, CodecOthers>>

AlterEssid ==
    \E essid \in CodecEssids \ {pyrbuf.b.essid} :
       Alter("essid", [pyrbuf.b EXCEPT !.essid = essid])

AlterPmk ==
    \E i \in 1..Len(pyrbuf.b.pmkbuffer), essid \in CodecEssids \ {pyrbuf.b.essid} :
       Alter("pmk", [pyrbuf.b EXCEPT !.pmkbuffer[i] = PMK(essid, @[2])])

AlterPw ==
    \E z \in {Compress(Join(pws)) : pws \in CodecPws} \cup {BadStream} :
       /\ z # pyrbuf.b.pwbuffer
       /\ Alter("pw", [pyrbuf.b EXCEPT !.pwbuffer = z])

AlterCount ==
    \E n \in 0..(Len(pyrbuf.b.pmkbuffer) + 1) :
       /\ n # pyrbuf.b.numElems
       /\ Alter("count", [pyrbuf.b EXCEPT !.numElems = n])

AlterDigest ==
    \E essid \in CodecEssids, pws \in CodecPws :
       LET d == PYR2Pack(essid, Results(essid, pws)).digest
       IN /\ d # pyrbuf.b.digest
          /\ Alter("digest", [pyrbuf.b EXCEPT !.digest = d])

\* PYR2_Buffer().unpack(buf) and list(results)
CodecRead ==
    /\ pyrret = <<>>
    /\ pyrret' = PYR2Load(pyrbuf.b, pyrbuf.zlen)
    /\ UNCHANGED <<pyrbuf, pyrkind, CodecOthers>>

CodecNext ==
    \/ AlterEssid
    \/ AlterPmk
    \/ AlterPw
    \/ AlterCount
    \/ AlterDigest
    \/ CodecRead

CodecSpec == CodecInit /\ [][CodecNext]_vars

\* ------------------------------------------------------ the packet parser
\* Number of packets parsed in one run.
MaxPckts == 4

\* a MAC address is the string of its hex digits; the model keeps the two
\* digits of the first octet
ApMac == <<"0", "0">>
StaMac == <<"0", "2">>
GroupMac == <<"0", "1">>
HexDigits ==
    <<"0", "1", "2", "3", "4", "5", "6", "7", "8", "9", "a", "b", "c", "d", "e", "f">>
\* int(c, 16)
HexVal(c) == (CHOOSE i \in 1..Len(HexDigits) : HexDigits[i] = c) - 1
\* int(addr[1], 16) & 1, lines 565 and 569
GroupBit(addr) == HexVal(addr[2]) % 2

\* a packet without a key layer
NoKey == <<>>
\* a packet: the Dot11 layer's fields the parser reads and the fields of
\* its EAPOL_WPAKey or EAPOL_RSNKey layer
Pckt(dot11, type, sub, ssid, toDS, fromDS, addr1, addr2, key) ==
    [dot11 |-> dot11, type |-> type, sub |-> sub, ssid |-> ssid,
     toDS |-> toDS, fromDS |-> fromDS, addr1 |-> addr1, addr2 |-> addr2,
     key |-> key]
KeyLayer(cls, KeyInfo, ReplayCounter, Nonce, WPAKeyMIC, WPAKeyLength) ==
    [cls |-> cls, KeyInfo |-> KeyInfo, ReplayCounter |-> ReplayCounter,
     Nonce |-> Nonce, WPAKeyMIC |-> WPAKeyMIC, WPAKeyLength |-> WPAKeyLength]

\* the key frames of a handshake between StaMac and ApMac
Frame1(rc, anonce) ==
    Pckt(TRUE, "Data", None, None, FALSE, TRUE, StaMac, ApMac,
         KeyLayer("RSN", {"HMAC_SHA1_AES", "pairwise", "ack"}, rc, anonce, "", 0))
Frame2(rc, mic, keylen) ==
    Pckt(TRUE, "Data", None, None, TRUE, FALSE, ApMac, StaMac,
         KeyLayer("RSN", {"HMAC_SHA1_AES", "pairwise", "mic"}, rc, "S", mic, keylen))
Frame3(rc, anonce) ==
    Pckt(TRUE, "Data", None, None, FALSE, TRUE, StaMac, ApMac,
         KeyLayer("RSN", {"HMAC_SHA1_AES", "pairwise", "install", "ack", "mic"},
                  rc, anonce, "M3", 0))

\* the packets of a capture
PcktInputs ==
    {Frame1(rc, anonce) : rc \in {1, 2}, anonce \in {"A", "B"}}
    \cup {Frame2(1, "M", 22), Frame2(2, "M", 22), Frame2(1, "N", 22), Frame2(1, "M", 0)}
    \cup {Frame3(rc, anonce) : rc \in {2, 3}, anonce \in {"A", "B"}}
    \cup {[Frame1(1, "A") EXCEPT !.toDS = TRUE],
          Pckt(TRUE, "Data", None, None, FALSE, FALSE, StaMac, ApMac, NoKey),
          Pckt(TRUE, "Data", None, None, TRUE, FALSE, ApMac, GroupMac, NoKey),
          Pckt(TRUE, "Data", None, None, FALSE, TRUE, GroupMac, ApMac, NoKey),
          Pckt(TRUE, "Management", "Beacon", "X", FALSE, FALSE, GroupMac, ApMac, NoKey),
          Pckt(TRUE, "Control", None, None, FALSE, FALSE, ApMac, StaMac, NoKey),
          Pckt(FALSE, None, None, None, FALSE, FALSE, ApMac, StaMac, NoKey)}

\* abs()
Abs(x) == IF x < 0 THEN 0 - x ELSE x
\* max()
Max(a, b) == IF a > b THEN a ELSE b
\* None in the frames of an EAPOLAuthentication; packets count from 1
NoFrame == 0

\* EAPOLAuthentication.__init__, lines 324-334; a frame is named by the
\* index of its packet
EAPOLAuthentication(response, anonce, quality, spread, frames) ==
    [version |-> response[1], snonce |-> response[2], anonce |-> anonce,
     keymic |-> response[4], keymic_frame |-> response[3],
     quality |-> quality, spread |-> spread, frames |-> frames]

\* the spread of F1+F2+F3 that also looks at the distance of F1 and F3
SpreadOfAll(f1_idx, f2_idx, f3_idx) ==
    Max(Max(Abs(f3_idx - f2_idx), Abs(f1_idx - f2_idx)), Abs(f1_idx - f3_idx))

\* _buildAuthentications, lines 283-284
SpreadOf(f1_idx, f2_idx, f3_idx) ==
    Max(Abs(f3_idx - f2_idx), Abs(f1_idx - f2_idx))

\* every first frame, with or without a third frame of its ANonce
UnconfirmedAll(f1_frames, f3_frames) == DOMAIN f1_frames

\* _buildAuthentications, lines 296-299: the ANonces of the first frames
\* that no third frame has
Unconfirmed(f1_frames, f3_frames) ==
    {anonce \in DOMAIN f1_frames : anonce \notin DOMAIN f3_frames}

\* Station._buildAuthentications, lines 270-304: the authentications of the
\* list it returns
BuildAuthentications(f1_frames, f2_frames, f3_frames) ==
    UNION {
        {IF anonce \in DOMAIN f1_frames
         THEN EAPOLAuthentication(resp, anonce, 0,
                  SpreadOf(f1_frames[anonce], f2_frames[resp], f3_frames[anonce]),
                  <<f1_frames[anonce], f2_frames[resp], f3_frames[anonce]>>)
         ELSE EAPOLAuthentication(resp, anonce, 1,
                  Abs(f3_frames[anonce] - f2_frames[resp]),
                  <<NoFrame, f2_frames[resp], f3_frames[anonce]>>)
           : anonce \in DOMAIN f3_frames}
        \cup
        {EAPOLAuthentication(resp, anonce, 2,
                  Abs(f1_frames[anonce] - f2_frames[resp]),
                  <<f1_frames[anonce], f2_frames[resp], NoFrame>>)
           : anonce \in Unconfirmed(f1_frames, f3_frames)}
      : resp \in DOMAIN f2_frames}

\* self.frames.setdefault(rc, ({}, {}, {}))
FramesOf(frames, rc) ==
    IF rc \in DOMAIN frames THEN frames[rc] ELSE <<EmptyDict, EmptyDict, EmptyDict>>

\* what a call of an add...Frame method returned: None
NoAuths == [none |-> TRUE, auths |-> {}]

\* addChallengeFrame without the test of line 220: a repeated first frame
\* replaces the stored one
AddChallengeFrameAlways(frames, pckt_idx, key) ==
    LET fr == FramesOf(frames, key.ReplayCounter)
    IN [frames |-> DictPut(frames, key.ReplayCounter,
                           [fr EXCEPT ![1] = DictPut(@, key.Nonce, pckt_idx)]),
        new |-> [none |-> FALSE,
                 auths |-> BuildAuthentications(DictPut(EmptyDict, key.Nonce, pckt_idx),
                                                fr[2], fr[3])]]

\* Station.addChallengeFrame, lines 217-224: the frames of the station and
\* the value returned
AddChallengeFrame(frames, pckt_idx, key) ==
    LET fr == FramesOf(frames, key.ReplayCounter)
    IN IF key.Nonce \notin DOMAIN fr[1]
       THEN [frames |-> DictPut(frames, key.ReplayCounter,
                                [fr EXCEPT ![1] = DictPut(@, key.Nonce, pckt_idx)]),
             new |-> [none |-> FALSE,
                      auths |-> BuildAuthentications(DictPut(EmptyDict, key.Nonce, pckt_idx),
                                                     fr[2], fr[3])]]
       ELSE [frames |-> DictPut(frames, key.ReplayCounter, fr), new |-> NoAuths]

\* addResponseFrame, lines 235-245: the key scheme of the response
Version(key) ==
    IF "HMAC_MD5_RC4" \in key.KeyInfo THEN "HMAC_MD5_RC4"
    ELSE IF "HMAC_SHA1_AES" \in key.KeyInfo THEN "HMAC_SHA1_AES"
    ELSE IF key.cls = "WPA" THEN "HMAC_MD5_RC4" ELSE "HMAC_SHA1_AES"

\* addResponseFrame, lines 247-254: the EAPOL frame with its MIC zeroed is
\* named by the fields of the key layer that stay
Response(key) ==
    <<Version(key), key.Nonce, <<key.ReplayCounter, key.Nonce, key.WPAKeyLength>>,
      key.WPAKeyMIC>>

\* Station.addResponseFrame, lines 225-260
AddResponseFrame(frames, pckt_idx, key) ==
    LET fr == FramesOf(frames, key.ReplayCounter)
        response == Response(key)
    IN IF response \notin DOMAIN fr[2]
       THEN [frames |-> DictPut(frames, key.ReplayCounter,
                                [fr EXCEPT ![2] = DictPut(@, response, pckt_idx)]),
             new |-> [none |-> FALSE,
                      auths |-> BuildAuthentications(fr[1],
                                    DictPut(EmptyDict, response, pckt_idx), fr[3])]]
       ELSE [frames |-> DictPut(frames, key.ReplayCounter, fr), new |-> NoAuths]

\* Station.addConfirmationFrame, lines 262-268
AddConfirmationFrame(frames, pckt_idx, key) ==
    LET fr == FramesOf(frames, key.ReplayCounter - 1)
    IN IF key.Nonce \notin DOMAIN fr[3]
       THEN [frames |-> DictPut(frames, key.ReplayCounter - 1,
                                [fr EXCEPT ![3] = DictPut(@, key.Nonce, pckt_idx)]),
             new |-> [none |-> FALSE,
                      auths |-> BuildAuthentications(fr[1], fr[2],
                                    DictPut(EmptyDict, key.Nonce, pckt_idx))]]
       ELSE [frames |-> DictPut(frames, key.ReplayCounter - 1, fr), new |-> NoAuths]

\* Station.addAuthenticationFrame, lines 207-215, for idx in 0..2
AddAuthenticationFrame(frames, idx, pckt_idx, key) ==
    IF idx = 0 THEN AddChallengeFrame(frames, pckt_idx, key)
    ELSE IF idx = 1 THEN AddResponseFrame(frames, pckt_idx, key)
    ELSE AddConfirmationFrame(frames, pckt_idx, key)

\* an order that looks at the spread alone
AuthLtSpread(a, b) == a.spread < b.spread

\* EAPOLAuthentication.__lt__, lines 345-350: (quality, spread) < (quality, spread)
AuthLt(a, b) ==
    a.quality < b.quality \/ (a.quality = b.quality /\ a.spread < b.spread)

\* sorted(auths), line 313: a stable sort that compares with __lt__
RECURSIVE InsertAuth(_, _)
InsertAuth(x, s) ==
    IF s = <<>> THEN <<x>>
    ELSE IF AuthLt(x, Head(s)) THEN <<x>> \o s
    ELSE <<Head(s)>> \o InsertAuth(x, Tail(s))

RECURSIVE SortAuths(_)
SortAuths(s) ==
    IF s = <<>> THEN <<>>
    ELSE InsertAuth(s[Len(s)], SortAuths(SubSeq(s, 1, Len(s) - 1)))

\* Station.getAuthentications, lines 306-313: the lists it may return; the
\* dictionaries are iterated in any order
GetAuthentications(frames) ==
    LET auths == UNION {BuildAuthentications(frames[rc][1], frames[rc][2], frames[rc][3])
                          : rc \in DOMAIN frames}
    IN {SortAuths(s) : s \in Orders(auths)}

\* AccessPoint.__init__, lines 153-157
AccessPoint == [essid |-> None, stations |-> EmptyDict]

\* PacketParser._add_ap, lines 476-484, with _find_ssid (lines 469-474)
AddAp(a, ap_mac, pckt) ==
    LET ap == IF ap_mac \in DOMAIN a THEN a[ap_mac] ELSE AccessPoint
    IN DictPut(a, ap_mac,
               IF ap.essid = None /\ pckt.ssid # None
               THEN [ap EXCEPT !.essid = pckt.ssid] ELSE ap)

\* PacketParser._add_station, lines 486-490; Station.__init__ lines 193-196
AddStation(a, ap_mac, sta_mac) ==
    IF sta_mac \in DOMAIN a[ap_mac].stations THEN a
    ELSE [a EXCEPT ![ap_mac].stations = DictPut(@, sta_mac, EmptyDict)]

\* parse_packet, lines 589-606: the phase of the handshake a key layer
\* belongs to, -1 for none
KeyPhase(key) ==
    IF {"pairwise", "ack"} \subseteq key.KeyInfo
       /\ {"install", "mic"} \cap key.KeyInfo = {}
    THEN 0
    ELSE IF /\ {"pairwise", "mic"} \subseteq key.KeyInfo
            /\ {"install", "ack"} \cap key.KeyInfo = {}
            /\ key.WPAKeyLength > 0
    THEN 1
    ELSE IF {"pairwise", "install", "ack", "mic"} \subseteq key.KeyInfo
    THEN 2
    ELSE -1

\* a test of the flags that asks for exactly one of them
DirectionStrict(pckt) ==
    IF pckt.toDS /\ ~pckt.fromDS /\ GroupBit(pckt.addr2) = 0
    THEN [ap_mac |-> pckt.addr1, sta_mac |-> pckt.addr2, ok |-> TRUE]
    ELSE IF pckt.fromDS /\ ~pckt.toDS /\ GroupBit(pckt.addr1) = 0
    THEN [ap_mac |-> pckt.addr2, sta_mac |-> pckt.addr1, ok |-> TRUE]
    ELSE [ap_mac |-> pckt.addr1, sta_mac |-> pckt.addr2, ok |-> FALSE]

\* parse_packet, lines 563-572: the AP and the station of a unicast packet
Direction(pckt) ==
    IF pckt.toDS /\ GroupBit(pckt.addr2) = 0
    THEN [ap_mac |-> pckt.addr1, sta_mac |-> pckt.addr2, ok |-> TRUE]
    ELSE IF pckt.fromDS /\ GroupBit(pckt.addr1) = 0
    THEN [ap_mac |-> pckt.addr2, sta_mac |-> pckt.addr1, ok |-> TRUE]
    ELSE [ap_mac |-> pckt.addr1, sta_mac |-> pckt.addr2, ok |-> FALSE]

\* the calls of new_auth_callback, line 499, added to those made before
Announce(calls, ap_mac, sta_mac, new) ==
    calls (+) [c \in {<<ap_mac, sta_mac, auth>> : auth \in new.auths} |-> 1]

\* parse_packet (lines 538-606) with _add_keypckt (lines 493-499) from
\* line 545 on, for a packet with a Dot11 layer: self.air and the calls of
\* new_auth_callback after it; the caller has a new_auth_callback
ParseDot11(a, calls, pckt_idx, pckt) ==
    IF pckt.type = "Control"
    THEN [air |-> a, new_auths |-> calls]
    ELSE IF pckt.sub = "Beacon"
    THEN [air |-> AddAp(a, pckt.addr2, pckt), new_auths |-> calls]
    ELSE LET a1 == IF pckt.sub = "AssoReq" THEN AddAp(a, pckt.addr1, pckt) ELSE a
             a2 == IF pckt.sub = "ProbeResp" THEN AddAp(a1, pckt.addr2, pckt) ELSE a1
             d == Direction(pckt)
         IN IF ~d.ok
            THEN [air |-> a2, new_auths |-> calls]
            ELSE LET a3 == AddStation(AddAp(a2, d.ap_mac, pckt), d.ap_mac, d.sta_mac)
                     idx == IF pckt.key = NoKey THEN -1 ELSE KeyPhase(pckt.key)
                 IN IF idx = -1
                    THEN [air |-> a3, new_auths |-> calls]
                    ELSE LET r == AddAuthenticationFrame(
                                      a3[d.ap_mac].stations[d.sta_mac],
                                      idx, pckt_idx, pckt.key)
                         IN [air |-> [a3 EXCEPT
                                        ![d.ap_mac].stations[d.sta_mac] = r.frames],
                             new_auths |-> Announce(calls, d.ap_mac, d.sta_mac, r.new)]

\* PacketParser.parse_packet, lines 538-606
ParsePacket(pckt) ==
    /\ pcktcount < MaxPckts
    /\ pcktcount' = pcktcount + 1
    /\ pret' = <<>>
    /\ IF ~pckt.dot11
       THEN UNCHANGED <<dot11_pcktcount, air, new_auths>>
       ELSE LET r == ParseDot11(air, new_auths, pcktcount + 1, pckt)
            IN /\ dot11_pcktcount' = dot11_pcktcount + 1
               /\ air' = r.air
               /\ new_auths' = r.new_auths
    /\ UNCHANGED PcktOthers

\* sta.getAuthentications() of a station the parser knows
GetAuths(ap_mac, sta_mac) ==
    /\ ap_mac \in DOMAIN air
    /\ sta_mac \in DOMAIN air[ap_mac].stations
    /\ \E auths \in GetAuthentications(air[ap_mac].stations[sta_mac]) :
          pret' = [ap_mac |-> ap_mac, sta_mac |-> sta_mac, auths |-> auths]
    /\ UNCHANGED <<air, pcktcount, dot11_pcktcount, new_auths, PcktOthers>>

\* PacketParser.__init__ (lines 456-467) without a capture file
ParserInit ==
    /\ CPyritInit
    /\ StoreConstructed(TRUE, [pw \in ValidPws |-> "00"])
    /\ CodecIdle
    /\ CrackIdle
    /\ RestIdle
    /\ air = EmptyDict
    /\ pcktcount = 0
    /\ dot11_pcktcount = 0
    /\ new_auths = EmptyBag
    /\ pret = <<>>

ParserNext ==
    \/ \E pckt \in PcktInputs : ParsePacket(pckt)
    \/ \E ap_mac \in DOMAIN air : \E sta_mac \in DOMAIN air[ap_mac].stations :
          GetAuths(ap_mac, sta_mac)

ParserSpec == ParserInit /\ [][ParserNext]_vars

\* --------------------------------------------------- the handshake cracker
\* util.ncpus is at most MaxWorkers
MaxWorkers == 2
\* Queue.Queue(10), line 652, scaled down
QueueCap == 2
\* Number of enqueue calls in one run.
MaxBatches == 3

\* the password of the network whose handshake is attacked
AuthPw == "pw2"
\* batches of (password, PMK) as the scheduler delivers them for ESSID "X"
BatchInputs ==
    {Results("X", <<"pw1">>), Results("X", <<"pw2">>), Results("X", <<"pw3", "pw2">>),
     Results("X", <<"pw3", "pw4">>)}

\* _cpyrit_cpu.EAPOLCracker.solve: the first (password, PMK) of the batch
\* whose PMK gives the MIC of the handshake, None if there is none
CrackSolve(results) ==
    LET hits == {i \in 1..Len(results) : results[i][2] = PMK("X", AuthPw)}
    IN IF hits = {} THEN None
       ELSE results[CHOOSE i \in hits : \A j \in hits : i <= j]

\* a join of the queue that waits for the queue to be empty only
JoinReadyEmpty(q, unf) == q = <<>>

\* Queue.join(): every item that was put was marked with task_done()
JoinReady(q, unf) == unf = 0

\* EAPOLCracker.__init__ (lines 651-656) with ncpus worker threads, each
\* started by EAPOLCrackerThread.__init__ (lines 624-633)
CrackConstructed(ncpus) ==
    /\ cworkers = ncpus
    /\ cq = <<>>
    /\ unfinished = 0
    /\ shallStop = [w \in 1..ncpus |-> FALSE]
    /\ wpc = [w \in 1..ncpus |-> "top"]
    /\ wbatch = [w \in 1..ncpus |-> <<>>]
    /\ wsolution = [w \in 1..ncpus |-> None]
    /\ numSolved = [w \in 1..ncpus |-> 0]
    /\ csolution = None
    /\ chpc = "idle"
    /\ chi = 0
    /\ tested = EmptyBag
    /\ enqueued = <<>>

CrackInit ==
    /\ CPyritInit
    /\ StoreConstructed(TRUE, [pw \in ValidPws |-> "00"])
    /\ CodecIdle
    /\ PcktIdle
    /\ RestIdle
    /\ \E ncpus \in 1..MaxWorkers : CrackConstructed(ncpus)

\* EAPOLCracker.enqueue, lines 665-667: queue.put blocks while the queue is
\* full
CrackEnqueue(results) ==
    /\ chpc = "idle"
    /\ Len(enqueued) < MaxBatches
    /\ Len(cq) < QueueCap
    /\ cq' = Append(cq, results)
    /\ unfinished' = unfinished + 1
    /\ enqueued' = Append(enqueued, results)
    /\ chpc' = "enqueue_sol"
    /\ chi' = 1
    /\ UNCHANGED <<cworkers, shallStop, wpc, wbatch, wsolution, numSolved, csolution,
                   tested, CrackOthers>>

\* EAPOLCracker._getSolution, lines 658-663, one worker after the other,
\* called by enqueue and by join
GetSolutionStep ==
    /\ chpc \in {"enqueue_sol", "join_sol"}
    /\ LET back == IF chpc = "enqueue_sol" THEN "idle" ELSE "joined"
       IN IF csolution # None \/ chi > cworkers
          THEN /\ chpc' = back
               /\ UNCHANGED <<csolution, chi>>
          ELSE IF wsolution[chi] # None
          THEN /\ csolution' = wsolution[chi]
               /\ chpc' = back
               /\ UNCHANGED chi
          ELSE /\ chi' = chi + 1
               /\ UNCHANGED <<csolution, chpc>>
    /\ UNCHANGED <<cworkers, cq, unfinished, shallStop, wpc, wbatch, wsolution,
                   numSolved, tested, enqueued, CrackOthers>>

\* EAPOLCracker.join, line 670: the call of queue.join()
CrackJoinCall ==
    /\ chpc = "idle"
    /\ chpc' = "join_wait"
    /\ UNCHANGED <<cworkers, cq, unfinished, shallStop, wpc, wbatch, wsolution,
                   numSolved, csolution, chi, tested, enqueued, CrackOthers>>

\* queue.join() returns
CrackJoinWake ==
    /\ chpc = "join_wait"
    /\ JoinReady(cq, unfinished)
    /\ chpc' = "join_stop"
    /\ chi' = 1
    /\ UNCHANGED <<cworkers, cq, unfinished, shallStop, wpc, wbatch, wsolution,
                   numSolved, csolution, tested, enqueued, CrackOthers>>

\* EAPOLCracker.join, lines 671-673: shallStop of one worker after the
\* other, then _getSolution
CrackJoinStop ==
    /\ chpc = "join_stop"
    /\ IF chi <= cworkers
       THEN /\ shallStop' = [shallStop EXCEPT ![chi] = TRUE]
            /\ chi' = chi + 1
            /\ UNCHANGED chpc
       ELSE /\ chpc' = "join_sol"
            /\ chi' = 1
            /\ UNCHANGED shallStop
    /\ UNCHANGED <<cworkers, cq, unfinished, wpc, wbatch, wsolution, numSolved,
                   csolution, tested, enqueued, CrackOthers>>

\* EAPOLCrackerThread.run, line 636: the test of the loop
WorkerTop(w) ==
    /\ wpc[w] = "top"
    /\ wpc' = [wpc EXCEPT ![w] = IF shallStop[w] THEN "stopped" ELSE "get"]
    /\ UNCHANGED <<cworkers, cq, unfinished, shallStop, wbatch, wsolution, numSolved,
                   csolution, chpc, chi, tested, enqueued, CrackOthers>>

\* run, lines 637-640: workqueue.get with a timeout
WorkerGet(w) ==
    /\ wpc[w] = "get"
    /\ IF cq # <<>>
       THEN /\ wbatch' = [wbatch EXCEPT ![w] = Head(cq)]
            /\ cq' = Tail(cq)
            /\ wpc' = [wpc EXCEPT ![w] = "solve"]
       ELSE /\ wpc' = [wpc EXCEPT ![w] = "top"]
            /\ UNCHANGED <<wbatch, cq>>
    /\ UNCHANGED <<cworkers, unfinished, shallStop, wsolution, numSolved, csolution,
                   chpc, chi, tested, enqueued, CrackOthers>>

\* run, lines 642-645: solve, numSolved, solution
WorkerSolve(w) ==
    /\ wpc[w] = "solve"
    /\ LET solution == CrackSolve(wbatch[w])
       IN wsolution' = IF solution # None
                       THEN [wsolution EXCEPT ![w] = solution[1]] ELSE wsolution
    /\ numSolved' = [numSolved EXCEPT ![w] = @ + Len(wbatch[w])]
    /\ tested' = tested (+) SetToBag({wbatch[w]})
    /\ wpc' = [wpc EXCEPT ![w] = "done"]
    /\ UNCHANGED <<cworkers, cq, unfinished, shallStop, wbatch, csolution, chpc, chi,
                   enqueued, CrackOthers>>

\* run, line 646: workqueue.task_done()
WorkerTaskDone(w) ==
    /\ wpc[w] = "done"
    /\ unfinished' = unfinished - 1
    /\ wpc' = [wpc EXCEPT ![w] = "top"]
    /\ UNCHANGED <<cworkers, cq, shallStop, wbatch, wsolution, numSolved, csolution,
                   chpc, chi, tested, enqueued, CrackOthers>>

CrackNext ==
    \/ \E results \in BatchInputs : CrackEnqueue(results)
    \/ GetSolutionStep
    \/ CrackJoinCall
    \/ CrackJoinWake
    \/ CrackJoinStop
    \/ \E w \in 1..cworkers : WorkerTop(w)
    \/ \E w \in 1..cworkers : WorkerGet(w)
    \/ \E w \in 1..cworkers : WorkerSolve(w)
    \/ \E w \in 1..cworkers : WorkerTaskDone(w)

CrackSpec == CrackInit /\ [][CrackNext]_vars

\* ------------------------------------------------- the relay (RPCServer)
\* A serving process: RPCServer owns a CPyrit (self.cp), every RPCClient's
\* gatherer thread hands the workunits it received from its remote server
\* to RPCServer.enqueue, and RPCServer.run passes the results on.  The
\* cores of self.cp are the callers of _gather and _scatter.

\* the workunits handed out to relay clients altogether
MaxRelayed == 2

\* the workunits a remote server hands out (never empty: rpc_gather
\* answers ('', '') when _gather timed out)
RelayWus == {<<"X", <<"p">>>>, <<"X", <<"p", "q">>>>, <<"Y", <<"q">>>>}

\* RPCServer.run, line 740: pop() instead of pop(0)
PoppedLast(pending) == pending[Len(pending)]

\* RPCServer.run, line 740: uuid = self.pending_clients.pop(0)
Popped(pending) == Head(pending)

\* the workunits received and not yet enqueued
InHand == Cardinality({c \in RelayUuids : gpc[c] \in {"lock", "enqueue"}})

\* what the relay leaves alone
RelayOthers == <<threadvars, held, storevars, codecvars, pcktvars, crackvars, adaptvars,
                 writervars>>

\* RPCServer.addClient, lines 712-725: the client registered with its
\* server, its thread and its gatherer run
AddClient(c) ==
    /\ calive[c] = "none"
    /\ rclients' = rclients \cup {c}
    /\ calive' = [calive EXCEPT ![c] = "run"]
    /\ gpc' = [gpc EXCEPT ![c] = "gather"]
    /\ UNCHANGED <<pending_clients, enqueue_lock, gwu, spc, solvedPMKs,
                   cresults, owners, sent, rlast>>
    /\ UNCHANGED <<schedvars, hostvars, histvars, RelayOthers>>

\* RPCGatherer.run, lines 633-636: server.gather returned a workunit
GathererReceive(c, wu) ==
    /\ gpc[c] = "gather"
    /\ calive[c] = "run"
    /\ n_enq + InHand < MaxRelayed
    /\ gwu' = [gwu EXCEPT ![c] = wu]
    /\ gpc' = [gpc EXCEPT ![c] = "lock"]
    /\ UNCHANGED <<rclients, pending_clients, enqueue_lock, calive, spc,
                   solvedPMKs, cresults, owners, sent, rlast>>
    /\ UNCHANGED <<schedvars, hostvars, histvars, RelayOthers>>

\* RPCServer.enqueue, lines 729-730: the gatherer took enqueue_lock and
\* appended its client's uuid
ServerAppend(c) ==
    /\ gpc[c] = "lock"
    /\ enqueue_lock = "None"
    /\ enqueue_lock' = c
    /\ pending_clients' = Append(pending_clients, c)
    /\ gpc' = [gpc EXCEPT ![c] = "enqueue"]
    /\ UNCHANGED <<rclients, calive, gwu, spc, solvedPMKs, cresults, owners,
                   sent, rlast>>
    /\ UNCHANGED <<schedvars, hostvars, histvars, RelayOthers>>

\* RPCServer.enqueue, lines 731-732: self.cp.enqueue returned (after its
\* wait, which changes nothing) and the lock is released
ServerEnqueue(c) ==
    /\ gpc[c] = "enqueue"
    /\ EnqueueDo(gwu[c][1], gwu[c][2])
    /\ owners' = Append(owners, c)
    /\ sent' = [sent EXCEPT ![c] = Append(@, gwu[c])]
    /\ enqueue_lock' = "None"
    /\ gwu' = [gwu EXCEPT ![c] = <<>>]
    /\ gpc' = [gpc EXCEPT ![c] = "gather"]
    /\ UNCHANGED <<rclients, pending_clients, calive, spc, solvedPMKs,
                   cresults, rlast>>
    /\ UNCHANGED RelayOthers

\* RPCClient.shutdown, or RPCClient.run left its loop (lines 662-678)
ClientStop(c) ==
    /\ calive[c] = "run"
    /\ calive' = [calive EXCEPT ![c] = "stopping"]
    /\ UNCHANGED <<rclients, pending_clients, enqueue_lock, gpc, gwu, spc,
                   solvedPMKs, cresults, owners, sent, rlast>>
    /\ UNCHANGED <<schedvars, hostvars, histvars, RelayOthers>>

\* RPCClient.run, lines 677-678: gatherer.shutdown() joined the gatherer,
\* whose loop ended (line 631), and the client thread ended
ClientEnd(c) ==
    /\ calive[c] = "stopping"
    /\ gpc[c] = "gather"
    /\ calive' = [calive EXCEPT ![c] = "dead"]
    /\ gpc' = [gpc EXCEPT ![c] = "done"]
    /\ UNCHANGED <<rclients, pending_clients, enqueue_lock, gwu, spc,
                   solvedPMKs, cresults, owners, sent, rlast>>
    /\ UNCHANGED <<schedvars, hostvars, histvars, RelayOthers>>

\* RPCServer.run, lines 736-738: self.cp.dequeue(block=True, timeout=3.0)
\* returned results or None
RelayDequeue ==
    /\ spc = "dequeue"
    /\ IF Complete
       THEN /\ DequeueTake
            /\ solvedPMKs' = DequeueResults
            /\ owners' = Tail(owners)
            /\ rlast' = [uuid |-> "None", owner |-> Head(owners), known |-> FALSE]
            /\ spc' = "pop"
       ELSE /\ DequeueReturn(IF workunits = <<>> THEN "empty" ELSE "timeout")
            /\ spc' = "clean"
            /\ UNCHANGED <<solvedPMKs, owners, rlast>>
    /\ UNCHANGED <<rclients, pending_clients, enqueue_lock, calive, gpc, gwu,
                   cresults, sent>>
    /\ UNCHANGED RelayOthers

\* RPCServer.run, lines 740-745: pop the uuid and scatter the results to
\* its client if it is still there
RelayPop ==
    /\ spc = "pop"
    /\ IF pending_clients = <<>>
       THEN /\ spc' = "dead"
            /\ UNCHANGED <<pending_clients, cresults, rlast>>
       ELSE LET uuid == Popped(pending_clients)
            IN /\ pending_clients' = SubSeq(pending_clients, 2, Len(pending_clients))
               /\ cresults' = IF uuid \in rclients
                              THEN [cresults EXCEPT ![uuid] = Append(@, solvedPMKs)]
                              ELSE cresults
               /\ rlast' = [rlast EXCEPT !.uuid = uuid, !.known = (uuid \in rclients)]
               /\ spc' = "clean"
    /\ UNCHANGED <<rclients, enqueue_lock, calive, gpc, gwu, solvedPMKs, owners, sent>>
    /\ UNCHANGED <<schedvars, hostvars, histvars, RelayOthers>>

\* RPCServer.run, lines 746-749: forget the clients whose thread ended
RelayClean ==
    /\ spc = "clean"
    /\ rclients' = {c \in rclients : calive[c] # "dead"}
    /\ spc' = "dequeue"
    /\ UNCHANGED <<pending_clients, enqueue_lock, calive, gpc, gwu, solvedPMKs,
                   cresults, owners, sent, rlast>>
    /\ UNCHANGED <<schedvars, hostvars, histvars, RelayOthers>>

RelayNext ==
    \/ \E c \in RelayUuids : AddClient(c)
    \/ \E c \in RelayUuids, wu \in RelayWus : GathererReceive(c, wu)
    \/ \E c \in RelayUuids : ServerAppend(c)
    \/ \E c \in RelayUuids : ServerEnqueue(c)
    \/ \E c \in RelayUuids : ClientStop(c)
    \/ \E c \in RelayUuids : ClientEnd(c)
    \/ RelayDequeue
    \/ RelayPop
    \/ RelayClean
    \/ \E n \in 1..MaxBuf : CallGather(n)
    \/ \E wu \in BagToSet(held) : CallScatter(wu)

RelaySpec == Init /\ [][RelayNext]_vars

\* ------------------------------------------- the calibration of one core
\* Core.run (lines 95-108) of one core of some class, with the sizes of the
\* batches _gather returns and the times solve() takes as inputs, and
\* resetStatistics() called by another thread at any time.

\* the batches one core processes
MaxRuns == 3

\* minBufferSize, buffersize and maxBufferSize as the constructors set them
\* (lines 78-84, 121, 142-144, 164-166, 187)
CoreClasses ==
    {[name |-> "Core", minBufferSize |-> 128, buffersize |-> 4096, maxBufferSize |-> 20480],
     [name |-> "CPUCore", minBufferSize |-> 128, buffersize |-> 512, maxBufferSize |-> 20480],
     [name |-> "CUDACore", minBufferSize |-> 1024, buffersize |-> 4096, maxBufferSize |-> 40960],
     [name |-> "StreamCore", minBufferSize |-> 128, buffersize |-> 4096, maxBufferSize |-> 8192]}

\* what time.time() - t can be, in ticks of the clock; 0 if solve() took
\* less than one tick
SolveTicks == {0, 1, 2}

\* line 105: avg = (2*buffersize + resCount / compTime * 3) / 3, as the
\* fraction num/den (compTime is not 0)
Avg(old, res, comp) == [num |-> 2 * old * comp + 3 * res, den |-> 3 * comp]

\* lines 106-107: int(max(minBufferSize, min(maxBufferSize, avg)))
Adapted(cls, old, res, comp) ==
    LET avg == Avg(old, res, comp)
    IN IF avg.num >= cls.maxBufferSize * avg.den THEN cls.maxBufferSize
       ELSE IF avg.num <= cls.minBufferSize * avg.den THEN cls.minBufferSize
       ELSE avg.num \div avg.den

AdaptOthers == <<cpyritvars, storevars, codecvars, pcktvars, crackvars, relayvars, writervars>>

\* Core.__init__ and the constructor of the class; start()
AdaptInit ==
    /\ CPyritInit
    /\ StoreConstructed(TRUE, [pw \in ValidPws |-> "00"])
    /\ CodecIdle /\ PcktIdle /\ CrackIdle /\ RelayIdle /\ WriterIdle
    /\ coreclass \in CoreClasses
    /\ bbuffersize = coreclass.buffersize
    /\ bresCount = 0
    /\ bcompTime = 0
    /\ callCount = 0
    /\ bpc = "gather"
    /\ blen = 0
    /\ nruns = 0

\* line 98: _gather(self.buffersize) returned n passwords
AdaptGather(n) ==
    /\ bpc = "gather"
    /\ nruns < MaxRuns
    /\ 1 <= n /\ n <= bbuffersize
    /\ blen' = n
    /\ nruns' = nruns + 1
    /\ bpc' = "solve"
    /\ UNCHANGED <<coreclass, bbuffersize, bresCount, bcompTime, callCount, AdaptOthers>>

\* lines 99-104: solve() took d ticks; the statistics are counted up
AdaptSolve(d) ==
    /\ bpc = "solve"
    /\ bcompTime' = bcompTime + d
    /\ bresCount' = bresCount + blen
    /\ callCount' = callCount + 1
    /\ bpc' = "adapt"
    /\ UNCHANGED <<coreclass, bbuffersize, blen, nruns, AdaptOthers>>

\* lines 105-108: the new buffersize, then _scatter; the division raises
\* ZeroDivisionError if compTime is 0 and the thread ends
AdaptUpdate ==
    /\ bpc = "adapt"
    /\ IF bcompTime = 0
       THEN bpc' = "dead" /\ UNCHANGED bbuffersize
       ELSE /\ bbuffersize' = Adapted(coreclass, bbuffersize, bresCount, bcompTime)
            /\ bpc' = "gather"
    /\ UNCHANGED <<coreclass, bresCount, bcompTime, callCount, blen, nruns, AdaptOthers>>

\* Core.resetStatistics (lines 92-93), called by another thread
AdaptReset ==
    /\ bpc \in {"gather", "solve", "adapt"}
    /\ bcompTime # 0 \/ bresCount # 0 \/ callCount # 0
    /\ bcompTime' = 0
    /\ bresCount' = 0
    /\ callCount' = 0
    /\ UNCHANGED <<coreclass, bbuffersize, bpc, blen, nruns, AdaptOthers>>

AdaptNext ==
    \/ \E n \in {1, 101, bbuffersize} : AdaptGather(n)
    \/ \E d \in SolveTicks : AdaptSolve(d)
    \/ AdaptUpdate
    \/ AdaptReset

AdaptSpec == AdaptInit /\ [][AdaptNext]_vars

\* --------------------------------------------------- the buffered writer
\* AsyncFileWriter (cpyrit_util.py, lines 46-163) with the thread of its
\* run() and one caller.  A string is the sequence of its characters and
\* the file handle is what was written to it.  The body run under self.cv
\* between two calls of cv.wait() is one step; cv.wait() has no timeout, so
\* a waiting thread goes on only after a notifyAll().  The file handle's
\* write() and flush() either return or raise.

\* the calls of write() of one run
MaxWrites == 3
\* maxsize, in characters
MaxSize == 1
\* what the caller writes
Chunks == {<<"a">>, <<"b", "c">>}

WriterOthers == <<cpyritvars, storevars, codecvars, pcktvars, crackvars, relayvars, adaptvars>>

\* AsyncFileWriter.__init__, lines 53-64: the thread was started
WriterInit ==
    /\ CPyritInit
    /\ StoreConstructed(TRUE, [pw \in ValidPws |-> "00"])
    /\ CodecIdle /\ PcktIdle /\ CrackIdle /\ RelayIdle /\ AdaptIdle
    /\ shallstop = FALSE
    /\ hasstopped = FALSE
    /\ excp = "None"
    /\ fbuf = <<>>
    /\ filehndl = <<>>
    /\ fpc = "loop"
    /\ fdata = <<>>
    /\ upc = "idle"
    /\ udata = <<>>
    /\ waking = {}
    /\ accepted = <<>>
    /\ atclose = <<>>
    /\ wasrunning = FALSE
    /\ lastcall = <<"none", "none">>
    /\ nwrites = 0
    /\ failed = FALSE

\* the threads inside cv.wait()
Waiting ==
    (IF upc \in {"write", "close", "join"} THEN {"caller"} ELSE {})
        \cup (IF fpc = "wait" THEN {"run"} ELSE {})

\* lines 95-96: buf.write(data) and notifyAll()
WriteTaken(data) ==
    /\ fbuf' = fbuf \o data
    /\ accepted' = accepted \o data
    /\ waking' = Waiting \ {"caller"}
    /\ upc' = "idle"
    /\ udata' = <<>>
    /\ lastcall' = <<"write", "returned">>

\* AsyncFileWriter.write, lines 83-99, up to its first cv.wait(): _raise()
\* raises what the thread left (lines 129-135), a full buffer makes the call
\* wait, and otherwise the data is taken
WriteCall(data) ==
    /\ upc = "idle"
    /\ nwrites < MaxWrites
    /\ nwrites' = nwrites + 1
    /\ IF excp # "None"
       THEN /\ excp' = "None"
            /\ shallstop' = TRUE
            /\ waking' = Waiting
            /\ lastcall' = <<"write", "raised">>
            /\ UNCHANGED <<fbuf, accepted, upc, udata>>
       ELSE IF Len(fbuf) > MaxSize
       THEN /\ upc' = "write"
            /\ udata' = data
            /\ waking' = waking \ {"caller"}
            /\ UNCHANGED <<excp, shallstop, fbuf, accepted, lastcall>>
       ELSE /\ WriteTaken(data)
            /\ UNCHANGED <<excp, shallstop>>
    /\ UNCHANGED <<hasstopped, filehndl, fpc, fdata, atclose, wasrunning, failed,
                   WriterOthers>>

\* lines 92-96, after cv.wait() returned: IOError if the writer shall stop,
\* another wait if the buffer is still full
WriteWake ==
    /\ upc = "write"
    /\ "caller" \in waking
    /\ IF shallstop
       THEN /\ upc' = "idle"
            /\ udata' = <<>>
            /\ waking' = waking \ {"caller"}
            /\ lastcall' = <<"write", "raised">>
            /\ UNCHANGED <<fbuf, accepted>>
       ELSE IF Len(fbuf) > MaxSize
       THEN /\ waking' = waking \ {"caller"}
            /\ UNCHANGED <<fbuf, accepted, upc, udata, lastcall>>
       ELSE WriteTaken(udata)
    /\ UNCHANGED <<shallstop, hasstopped, excp, filehndl, fpc, fdata, atclose,
                   wasrunning, nwrites, failed, WriterOthers>>

\* lines 79 and 124: the thread has stopped; _raise() (lines 128-135) raises
\* what it left
Stopped(call) ==
    /\ upc' = "idle"
    /\ IF excp # "None"
       THEN /\ excp' = "None"
            /\ waking' = Waiting \ {"caller"}
            /\ lastcall' = <<call, "raised">>
       ELSE /\ waking' = waking \ {"caller"}
            /\ lastcall' = <<call, "returned">>
            /\ UNCHANGED excp

\* AsyncFileWriter.close, lines 66-81, up to its first cv.wait()
CloseCall ==
    /\ upc = "idle"
    /\ shallstop' = TRUE
    /\ atclose' = accepted
    /\ wasrunning' = ~shallstop
    /\ IF hasstopped
       THEN Stopped("close")
       ELSE /\ upc' = "close"
            /\ waking' = Waiting
            /\ UNCHANGED <<excp, lastcall>>
    /\ UNCHANGED <<hasstopped, fbuf, filehndl, fpc, fdata, udata, accepted, nwrites,
                   failed, WriterOthers>>

\* lines 77-79, after cv.wait() returned
CloseWake ==
    /\ upc = "close"
    /\ "caller" \in waking
    /\ IF hasstopped
       THEN Stopped("close")
       ELSE /\ waking' = waking \ {"caller"}
            /\ UNCHANGED <<upc, excp, lastcall>>
    /\ UNCHANGED <<shallstop, hasstopped, fbuf, filehndl, fpc, fdata, udata, accepted,
                   atclose, wasrunning, nwrites, failed, WriterOthers>>

\* AsyncFileWriter.closeAsync, lines 101-112
CloseAsync ==
    /\ upc = "idle"
    /\ shallstop' = TRUE
    /\ waking' = Waiting
    /\ lastcall' = <<"closeAsync", "returned">>
    /\ UNCHANGED <<hasstopped, excp, fbuf, filehndl, fpc, fdata, upc, udata, accepted,
                   atclose, wasrunning, nwrites, failed, WriterOthers>>

\* AsyncFileWriter.join, lines 114-126, up to its first cv.wait()
JoinCall ==
    /\ upc = "idle"
    /\ IF hasstopped
       THEN Stopped("join")
       ELSE /\ upc' = "join"
            /\ waking' = waking \ {"caller"}
            /\ UNCHANGED <<excp, lastcall>>
    /\ UNCHANGED <<shallstop, hasstopped, fbuf, filehndl, fpc, fdata, udata, accepted,
                   atclose, wasrunning, nwrites, failed, WriterOthers>>

\* lines 122-124, after cv.wait() returned
JoinWake ==
    /\ upc = "join"
    /\ "caller" \in waking
    /\ IF hasstopped
       THEN Stopped("join")
       ELSE /\ waking' = waking \ {"caller"}
            /\ UNCHANGED <<upc, excp, lastcall>>
    /\ UNCHANGED <<shallstop, hasstopped, fbuf, filehndl, fpc, fdata, udata, accepted,
                   atclose, wasrunning, nwrites, failed, WriterOthers>>

\* lines 143-146: what run() does when the buffer is empty
RunEmpty == IF shallstop THEN "flush" ELSE "wait"

\* AsyncFileWriter.run, lines 140-152: one turn of the loop under self.cv
RunTurn ==
    /\ fpc = "loop"
    /\ IF fbuf = <<>>
       THEN /\ fpc' = RunEmpty
            /\ waking' = waking \ {"run"}
            /\ UNCHANGED <<fbuf, fdata>>
       ELSE /\ fdata' = fbuf
            /\ fbuf' = <<>>
            /\ waking' = Waiting
            /\ fpc' = "write"
    /\ UNCHANGED <<shallstop, hasstopped, excp, filehndl, upc, udata, accepted, atclose,
                   wasrunning, lastcall, nwrites, failed, WriterOthers>>

\* line 147, after cv.wait() returned: the next turn
RunWake ==
    /\ fpc = "wait"
    /\ "run" \in waking
    /\ fpc' = "loop"
    /\ waking' = waking \ {"run"}
    /\ UNCHANGED <<shallstop, hasstopped, excp, fbuf, filehndl, fdata, upc, udata,
                   accepted, atclose, wasrunning, lastcall, nwrites, failed, WriterOthers>>

\* lines 154-155 and 157-158: filehndl.write(data), which returns or raises
RunWrite(ok) ==
    /\ fpc = "write"
    /\ fdata' = <<>>
    /\ IF ok
       THEN /\ filehndl' = filehndl \o fdata
            /\ fpc' = "loop"
            /\ UNCHANGED <<excp, failed>>
       ELSE /\ excp' = "IOError"
            /\ failed' = TRUE
            /\ fpc' = "finally"
            /\ UNCHANGED filehndl
    /\ UNCHANGED <<shallstop, hasstopped, fbuf, upc, udata, waking, accepted, atclose,
                   wasrunning, lastcall, nwrites, WriterOthers>>

\* lines 156-158: filehndl.flush(), which returns or raises
RunFlush(ok) ==
    /\ fpc = "flush"
    /\ fpc' = "finally"
    /\ IF ok
       THEN UNCHANGED <<excp, failed>>
       ELSE excp' = "IOError" /\ failed' = TRUE
    /\ UNCHANGED <<shallstop, hasstopped, fbuf, filehndl, fdata, upc, udata, waking,
                   accepted, atclose, wasrunning, lastcall, nwrites, WriterOthers>>

\* lines 159-163: the thread ends
RunFinally ==
    /\ fpc = "finally"
    /\ shallstop' = TRUE
    /\ hasstopped' = TRUE
    /\ waking' = Waiting
    /\ fpc' = "done"
    /\ UNCHANGED <<excp, fbuf, filehndl, fdata, upc, udata, accepted, atclose,
                   wasrunning, lastcall, nwrites, failed, WriterOthers>>

WriterNext ==
    \/ \E data \in Chunks : WriteCall(data)
    \/ WriteWake
    \/ CloseCall
    \/ CloseWake
    \/ CloseAsync
    \/ JoinCall
    \/ JoinWake
    \/ RunTurn
    \/ RunWake
    \/ \E ok \in BOOLEAN : RunWrite(ok)
    \/ \E ok \in BOOLEAN : RunFlush(ok)
    \/ RunFinally

WriterSpec == WriterInit /\ [][WriterNext]_vars

\* ------------------------------------------------------------- properties
\* The enqueue record (essid, password) of the ingress index i, read from
\* the host's list wus of unanswered enqueues, the first of which begins at
\* the index base.
RECURSIVE EnqAt(_, _, _)
EnqAt(wus, base, i) ==
    IF wus = <<>> THEN None
    ELSE IF i < base + Len(Head(wus)[2])
         THEN <<Head(wus)[1], Head(wus)[2][i - base + 1]>>
         ELSE EnqAt(Tail(wus), base + Len(Head(wus)[2]), i)

\* The fragments frags cover the passwords of the batch wu from position ptr
\* on, each password enqueued under the ESSID of the batch.
RECURSIVE FragsMatch(_, _, _)
FragsMatch(frags, wu, ptr) ==
    IF frags = <<>> THEN ptr = Len(wu[2])
    ELSE LET idx == Head(frags)[1]
             n == Head(frags)[2]
         IN /\ ptr + n <= Len(wu[2])
            /\ \A j \in 0..(n - 1) :
                  /\ idx + j >= out_idx
                  /\ EnqAt(host_wus, out_idx, idx + j) = <<wu[1], wu[2][ptr + j + 1]>>
            /\ FragsMatch(Tail(frags), wu, ptr + n)

\* C1 (scheduler FIFO): whenever dequeue returns results, they are the PMKs
\* of the oldest unanswered enqueue, password by password and under its
\* ESSID, whatever the order of the gathers, scatters and revokes before.
C1_Fifo ==
    ret.why = "results" => ret.val = Solve(host_last[1], host_last[2])

\* C1: results were returned for an enqueue while results of a later index
\* already lay in the out-buffer beyond a gap (scatters out of order).
C1_Witness ==
    /\ ret.why = "results"
    /\ Len(ret.val) > 0
    /\ host_wus # <<>>
    /\ \E k \in DOMAIN outqueue :
          /\ Len(outqueue[k]) > 0
          /\ out_idx \in DOMAIN outqueue
          /\ k > out_idx + Len(outqueue[out_idx])

\* C2 (scheduler quantity): a successful dequeue returns exactly as many
\* results as the password list of the enqueue it answers contained.
C2_Quantity ==
    ret.why = "results" => Len(ret.val) = Len(host_last[2])

\* C2: results were returned from a region that also held results of the
\* next enqueue (a batch or a merge spanning two enqueue calls).
C2_Witness ==
    /\ ret.why = "results"
    /\ Len(ret.val) = MaxLen
    /\ out_idx \in DOMAIN outqueue
    /\ Len(outqueue[out_idx]) > 0

\* C4 (single ESSID per batch): every batch that _gather returned and
\* recorded consists of passwords that were enqueued under the ESSID the
\* batch was returned with, at the indices of its fragments.
C4_SingleEssid ==
    /\ \A wu \in DOMAIN slices :
          \A k \in 1..Len(slices[wu]) : FragsMatch(slices[wu][k], wu, 0)
    /\ \A wu \in BagToSet(held) : wu \in DOMAIN slices

\* C4: a batch in flight spans two enqueue calls of its ESSID that are not
\* adjacent (entries X, Y, X), and the passwords of the other ESSID that lie
\* between them are still in the ingress queue.
C4_Witness ==
    \E wu \in BagToSet(held) :
       /\ wu \in DOMAIN slices
       /\ \E k \in 1..Len(slices[wu]) :
             LET frags == slices[wu][k]
             IN /\ Len(frags) > 1
                /\ frags[2][1] > frags[1][1] + frags[1][2]
       /\ inqueue # <<>>
       /\ inqueue[1].essid # wu[1]
       /\ QueueLen(inqueue) > 0

\* C3 (liveness of dequeue): while the cores keep on, a dequeue(block=True,
\* timeout=None) that waits while an enqueue of a non-empty password list is
\* outstanding eventually returns the results of the oldest outstanding
\* enqueue; so every such enqueue is answered by the dequeue made on it.
C3_Live ==
    (hpc = "deq_wait" /\ \E i \in 1..Len(workunits) : workunits[i] > 0)
        ~> (hpc = "idle" /\ ret.why = "results")

\* C3: the blocking dequeue waits for a non-empty enqueue of which
\* passwords are still in the ingress queue.
C3_Witness ==
    /\ hpc = "deq_wait"
    /\ workunits # <<>>
    /\ workunits[1] > 0
    /\ ~Complete
    /\ QueueLen(inqueue) > 0

\* the positions of the host calls that wait
WaitingPcs == {"enq_wait", "wfs_wait", "deq_wait", "deq_timed"}

\* C5 (dead-core health check): when some core is dead, a waiting call that
\* wakes up ends (with the dead-core error or with its results), it does not
\* go on waiting; and a core in _gather ends too.
C5_DeadCoreChecked ==
    [][SomeDead =>
          /\ (hpc \in WaitingPcs /\ hostvars' # hostvars) => hpc' = "idle"
          /\ \A c \in cores \cap CpuIds :
                (cpc[c] = "gather" /\ cpc'[c] # "gather") => cpc'[c] = "dead"]_vars

\* C6 (backpressure depends on the block flag): an enqueue that waits was
\* called with block=True.
C6_BlockFlag ==
    hpc = "enq_wait" => hargs.block

\* a dequeue call made while no enqueue is outstanding
DequeueOnNothing ==
    /\ workunits = <<>>
    /\ \/ DequeueCall(TRUE)
       \/ DequeueCall(FALSE)
       \/ \E t \in Timeouts, w \in 0..MaxElapsed : DequeueTimedCall(t, w)

\* a dequeue(block=False) made while the oldest results are incomplete
DequeueNonblockIncomplete ==
    /\ workunits # <<>>
    /\ ~Complete
    /\ DequeueCall(FALSE)

DequeueTimedIncomplete(timeout, waited) ==
    /\ workunits # <<>>
    /\ ~Complete
    /\ ~SomeDead
    /\ DequeueTimedCall(timeout, waited)

\* C8 (timeout of dequeue): dequeue(block=True, timeout=T) on incomplete
\* results goes on waiting while less than T has elapsed, and returns None
\* when T has elapsed; once T has elapsed it does not wait on.
C8_Timeout ==
    [][/\ \A t \in Timeouts, w \in 0..MaxElapsed :
             DequeueTimedIncomplete(t, w)
             => IF w < t THEN hpc' = "deq_timed"
                ELSE (hpc' = "idle" /\ ret'.why = "timeout")
       /\ (hpc = "deq_timed" /\ hostvars' # hostvars /\ elapsed >= hargs.timeout)
          => hpc' = "idle"]_vars

\* C9 (cancellation): of a core whose thread has ended the slice table holds
\* no recording: the batch it held was revoked.
C9_DeadCoreRevoked ==
    \A c \in cores \cap CpuIds :
       cpc[c] = "dead" => (cwu[c] = NoWu \/ cwu[c] \notin DOMAIN slices)

\* C10 (unregistration revokes): a client that was unregistered holds no
\* batch, once the rpc_gather call that ran for it has ended.
C10_UnregisteredHoldsNone ==
    \A n \in used_uuids \ clients :
       rpc # n => cl_workunits[n] = <<>>

\* the list a pop() leaves of a client's outstanding workunits
Front(s) == SubSeq(s, 1, Len(s) - 1)

\* C11 (the RPC method revoke): when a registered client's most recently
\* gathered workunit leaves its outstanding list (a step other than the
\* pop(0) of scatter), the passwords of that workunit are back in the
\* ingress queue after the step.
C11_RevokeReinserts ==
    [][\A n \in clients \cap clients' :
          (/\ cl_workunits[n] # <<>>
           /\ cl_workunits'[n] = Front(cl_workunits[n])
           /\ cl_workunits'[n] # Tail(cl_workunits[n]))
          => QueueLen(inqueue') =
                QueueLen(inqueue) + Len(cl_workunits[n][Len(cl_workunits[n])][2])]_vars

\* the passwords of a bucket of the buffer
BucketSet(bucket) == IF unique_check THEN bucket ELSE SeqToSet(bucket)

\* the passwords that reading the stored bucket of a key gives
StoredPws(files, disk, key) == SeqToSet(PwGet(files, disk, key))

\* the passwords that are in storage: those that were packed into a stored
\* bucket and those that reading a stored bucket gives
InStorage(files, disk, wr) ==
    UNION {wr[k] \cup StoredPws(files, disk, k) : k \in DOMAIN files}

\* a call of the storage method op ends with this step
CallOf(op) == n_ops' = n_ops + 1 /\ sret'.op = op

\* the password a store_password call buffers
Buffers(passwd) == Strip(passwd)

\* C12 (unique-check): with unique_check on, no password is read from two
\* stored password buckets.
C12_NoDuplicate ==
    unique_check =>
        \A k1, k2 \in DOMAIN pwfiles :
            k1 # k2 => StoredPws(pwfiles, pwdisk, k1) \cap StoredPws(pwfiles, pwdisk, k2) = {}

\* the passwords a step hands to _flush_bucket: the whole buffer for
\* flush_buffer and a normal exit, the bucket of the password for a
\* store_password
Pending ==
    IF sret'.op = "store_password"
    THEN LET pw == Buffers(sret'.arg[1])
         IN IF PwLenOk(pw)
            THEN {pw} \cup (IF h1_of[pw] \in DOMAIN pwbuffer
                            THEN BucketSet(pwbuffer[h1_of[pw]]) ELSE {})
            ELSE {}
    ELSE UNION {BucketSet(pwbuffer[h]) : h \in DOMAIN pwbuffer}

\* C13 (idempotent import): with unique_check on, a store_password or a
\* flush whose passwords are all in storage already creates no bucket and
\* changes none.
C13_Idempotent ==
    [][(/\ unique_check
        /\ CallOf("store_password") \/ CallOf("flush_buffer") \/ CallOf("exit")
        /\ Pending \subseteq InStorage(pwfiles, pwdisk, written))
       => (pwfiles' = pwfiles /\ pwdisk' = pwdisk)]_vars

\* the passwords of a stored result set, in its order
ResultPws(essid, key) ==
    LET r == PYR2Read(essid_files[essids[essid][key]]).results
    IN [i \in 1..Len(r) |-> r[i][1]]

\* C14 (referential invariant): every key with a result set under an ESSID
\* is a key of the password store, and the result set lists the passwords
\* of the key's bucket in the bucket's order.
C14_Referential ==
    \A essid \in DOMAIN essids : \A key \in DOMAIN essids[essid] :
        /\ key \in DOMAIN pwfiles
        /\ ResultPws(essid, key) = PwGet(pwfiles, pwdisk, key)

\* C15 (length filter): a store_password of a password with, after the
\* trimming, 8 to 63 characters leaves it in the buffer or in storage; with
\* any other length the call returns and changes neither the buffer nor the
\* stored buckets.
C15_LengthFilter ==
    [][CallOf("store_password") =>
          LET pw == Buffers(sret'.arg[1])
          IN /\ sret'.err = None
             /\ IF Len(pw) >= 8 /\ Len(pw) <= 63
                THEN \/ \E h \in DOMAIN pwbuffer' : pw \in BucketSet(pwbuffer'[h])
                     \/ pw \in InStorage(pwfiles', pwdisk', written')
                ELSE /\ pwbuffer' = pwbuffer
                     /\ pwfiles' = pwfiles
                     /\ pwdisk' = pwdisk]_vars

\* C15: a line of 8 characters and its terminators was passed, and a
\* password of 63 characters is stored
C15_Witness ==
    /\ sret.op = "store_password"
    /\ sret.arg = <<Rep("a", 8) \o <<CR, LF>>>>
    /\ \E h \in DOMAIN pwbuffer : Rep("a", 8) \in BucketSet(pwbuffer[h])
    /\ Rep("b", 63) \in InStorage(pwfiles, pwdisk, written)

\* C16 (context manager): a normal exit leaves every bucket of the buffer
\* empty and every password that was buffered in storage; an exit with an
\* error changes neither the buffer nor the stored buckets and returns
\* False, so that the error is raised again.
C16_ExitFlush ==
    [][CallOf("exit") =>
          IF sret'.arg[1] = None
          THEN /\ \A h \in DOMAIN pwbuffer' : BucketLen(pwbuffer'[h]) = 0
               /\ \A h \in DOMAIN pwbuffer :
                     BucketSet(pwbuffer[h]) \subseteq InStorage(pwfiles', pwdisk', written')
          ELSE /\ pwbuffer' = pwbuffer
               /\ pwfiles' = pwfiles
               /\ pwdisk' = pwdisk
               /\ sret'.val = <<FALSE>>
               /\ sret'.err = sret'.arg[1]]_vars

\* C16: the scope was left with an error while a password was buffered
C16_Witness ==
    /\ sret.op = "exit"
    /\ sret.err = "IOError"
    /\ \E h \in DOMAIN pwbuffer : BucketLen(pwbuffer[h]) > 0
    /\ pwfiles # EmptyDict

\* C17 (facade delete): after Storage's delete of a key returned, the key is
\* not a key of the password store (FSPasswordStore.__contains__) and no
\* ESSID has a result set or a result file under it; the buckets and the
\* result sets of every other key are what they were.
C17_FacadeDelete ==
    [][(CallOf("delete") /\ sret'.err = None) =>
          LET key == sret'.arg[1]
          IN /\ key \notin DOMAIN pwfiles'
             /\ DOMAIN essids' = DOMAIN essids
             /\ \A e \in DOMAIN essids :
                   /\ key \notin DOMAIN essids'[e]
                   /\ <<EssidRoot(e), PyrFile(key)>> \notin DOMAIN essid_files'
                   /\ \A k \in (DOMAIN essids[e]) \ {key} :
                         /\ k \in DOMAIN essids'[e]
                         /\ essids'[e][k] = essids[e][k]
                         /\ essid_files'[essids[e][k]] = essid_files[essids[e][k]]
             /\ \A k \in (DOMAIN pwfiles) \ {key} :
                   /\ k \in DOMAIN pwfiles'
                   /\ pwfiles'[k] = pwfiles[k]
                   /\ pwdisk'[PwPath(pwfiles[k], k)] = pwdisk[PwPath(pwfiles[k], k)]]_vars

\* C17: the delete removed a result set and a bucket, and another bucket is
\* still stored
C17_Witness ==
    /\ sret.op = "delete"
    /\ sret.err = None
    /\ \E p \in sret.unlinked : p[2][1] = "pyr"
    /\ \E p \in sret.unlinked : p[2][1] = "pw"
    /\ pwfiles # EmptyDict

\* C18 (create_essid again): a create_essid of an ESSID that is in the store
\* returns and changes neither the ESSIDs of the store nor any result set
\* or file of it.
C18_CreateAgain ==
    [][(CallOf("create_essid") /\ sret'.arg[1] \in DOMAIN essids) =>
          /\ sret'.err = None
          /\ essids' = essids
          /\ essid_dirs' = essid_dirs
          /\ essid_files' = essid_files]_vars

\* C18: create_essid was called for an ESSID that had a result set
C18_Witness ==
    /\ sret.op = "create_essid"
    /\ sret.err = None
    /\ sret.arg[1] \in DOMAIN essids
    /\ essids[sret.arg[1]] # EmptyDict

C20_GetMissing ==
    [][CallOf("get") =>
          IF sret'.arg[1] \notin DOMAIN essids
          THEN sret'.err = "KeyError"
          ELSE sret'.arg[2] \notin DOMAIN essids[sret'.arg[1]]
               => (sret'.err = None /\ sret'.val = <<>>)]_vars

\* C21 (PAW2 round trip): every stored bucket unpacks to the key it is
\* stored under, and to a collection that as a set is the set of passwords
\* that was packed into it.
C21_RoundTrip ==
    \A k \in DOMAIN pwfiles :
        LET inp == PAW2Unpack(pwdisk[PwPath(pwfiles[k], k)])
        IN /\ inp.key = k
           /\ SeqToSet(inp.collection) = written[k]

\* the digest of the fields unpack takes from the buffer is not the digest
\* the buffer holds
DigestMismatch ==
    LET u == PYR2Unpack(pyrbuf.b, pyrbuf.zlen).buf
    IN Md5(<<u.essid, u.pmkbuffer, u.pwbuffer>>) # u.digest

\* C22 (PYR2 digest check): whenever a buffer whose digest does not match
\* was read, the reading ended with DigestError and gave no results.
C22_DigestError ==
    (pyrret # <<>> /\ DigestMismatch) =>
        (pyrret.err = "DigestError" /\ pyrret.results = <<>>)

\* the key frames of the station whose authentications were returned
RetFrames == air[pret.ap_mac].stations[pret.sta_mac]

\* the station has Frame 1 and Frame 3 with one ANonce and Frame 2, all
\* under one ReplayCounter (Frame 3 carried the next one), and nothing else
Handshake(frames) ==
    \E r \in DOMAIN frames :
       /\ DOMAIN frames = {r}
       /\ Cardinality(DOMAIN frames[r][1]) = 1
       /\ Cardinality(DOMAIN frames[r][2]) = 1
       /\ DOMAIN frames[r][3] = DOMAIN frames[r][1]

\* C23 (handshake reconstruction): for a station with exactly the three
\* frames of one handshake, getAuthentications returns one authentication,
\* of quality 0.
C23_OneAuth ==
    (pret # <<>> /\ Handshake(RetFrames)) =>
        (Len(pret.auths) = 1 /\ pret.auths[1].quality = 0)

\* C23: the handshake was returned for frames that arrived in the order
\* Frame 3, Frame 1, Frame 2
C23_Witness ==
    /\ pret # <<>>
    /\ Handshake(RetFrames)
    /\ Len(pret.auths) = 1
    /\ pret.auths[1].frames[3] < pret.auths[1].frames[1]
    /\ pret.auths[1].frames[1] < pret.auths[1].frames[2]

\* C24 (authentication ordering): the list getAuthentications returns is
\* ascending in (quality, spread), and every authentication in it has
\* quality 0 with three frames, 1 with Frame 2 and Frame 3, or 2 with
\* Frame 1 and Frame 2.
C24_Sorted ==
    pret # <<>> =>
        /\ \A i, j \in 1..Len(pret.auths) :
              i < j =>
                 \/ pret.auths[i].quality < pret.auths[j].quality
                 \/ /\ pret.auths[i].quality = pret.auths[j].quality
                    /\ pret.auths[i].spread <= pret.auths[j].spread
        /\ \A i \in 1..Len(pret.auths) :
              LET a == pret.auths[i]
              IN /\ a.quality \in {0, 1, 2}
                 /\ a.frames[2] # NoFrame
                 /\ a.quality = 0 <=> (a.frames[1] # NoFrame /\ a.frames[3] # NoFrame)
                 /\ a.quality = 1 <=> (a.frames[1] = NoFrame /\ a.frames[3] # NoFrame)
                 /\ a.quality = 2 <=> (a.frames[1] # NoFrame /\ a.frames[3] = NoFrame)

\* C24: a list was returned in which the better authentication has the
\* larger spread
C24_Witness ==
    /\ pret # <<>>
    /\ Len(pret.auths) >= 2
    /\ pret.auths[1].quality < pret.auths[2].quality
    /\ pret.auths[1].spread > pret.auths[2].spread

\* the largest distance between the packet indices of two frames of fs
MaxGap(fs) ==
    LET idxs == {fs[i] : i \in 1..Len(fs)} \ {NoFrame}
    IN CHOOSE g \in 0..MaxPckts :
          /\ \E x, y \in idxs : Abs(x - y) = g
          /\ \A x, y \in idxs : Abs(x - y) <= g

\* C25 (spread): the spread of every authentication returned is the largest
\* distance between the packet indices of any two of its frames.
C25_Spread ==
    pret # <<>> =>
        \A i \in 1..Len(pret.auths) :
            pret.auths[i].spread = MaxGap(pret.auths[i].frames)

\* the packet is no Beacon, AssociationRequest or ProbeResponse
NonEssidFrame(pckt) == pckt.dot11 /\ pckt.type # "Control" /\ pckt.sub = None

\* C26 (unicast one-direction frames only): whatever was parsed before,
\* parsing a non-ESSID frame that has both of to-DS and from-DS set, or
\* neither, or whose station address is a group address, creates no
\* AccessPoint, no Station and no key-frame entry.
C26_OneDirection ==
    \A pckt \in PcktInputs :
        (NonEssidFrame(pckt) /\ ~DirectionStrict(pckt).ok)
          => ParseDot11(air, new_auths, pcktcount + 1, pckt).air = air

\* C27 (on_new_auth): no combination of frames of a station was passed to
\* the new-authentication callback more than once.
C27_AnnouncedOnce ==
    \A c1, c2 \in DOMAIN new_auths :
        (c1[1] = c2[1] /\ c1[2] = c2[2] /\ c1[3].frames = c2[3].frames)
          => (c1 = c2 /\ new_auths[c1] = 1)

\* some batch passed to enqueue() holds a PMK that gives the MIC
SomeMatch == \E i \in 1..Len(enqueued) : CrackSolve(enqueued[i]) # None

\* C28 (cracker shutdown): when join() has returned, the batches given to
\* solve are the batches passed to enqueue(), each once, and the cracker's
\* solution is set, to the password of a matching PMK, exactly if some
\* batch held a matching PMK.
C28_Joined ==
    chpc = "joined" =>
        /\ tested = [b \in SeqToSet(enqueued) |->
                        Cardinality({i \in 1..Len(enqueued) : enqueued[i] = b})]
        /\ (csolution # None) <=> SomeMatch
        /\ csolution # None => csolution = AuthPw

\* C28: join() returned with a solution after both workers tested batches,
\* the last of which held no matching PMK
C28_Witness ==
    /\ chpc = "joined"
    /\ csolution # None
    /\ Len(enqueued) = MaxBatches
    /\ CrackSolve(enqueued[Len(enqueued)]) = None
    /\ \A w \in 1..MaxWorkers : w \in DOMAIN numSolved /\ numSolved[w] > 0

\* the regions [k, k + n) of ingress indices that wait in the ingress queue,
\* each named by the entry and the key it is stored under
PendingRegions ==
    UNION {{[at |-> <<"inqueue", e, k>>, k |-> k, n |-> Len(inqueue[e].pwdict[k])] :
               k \in DOMAIN inqueue[e].pwdict} : e \in 1..Len(inqueue)}

\* the regions recorded in the slice table: every fragment of every
\* recording of every key
FlightRegions ==
    UNION {UNION {{[at |-> <<"slices", wu, r, f>>,
                    k |-> slices[wu][r][f][1], n |-> slices[wu][r][f][2]] :
                      f \in 1..Len(slices[wu][r])} :
                  r \in 1..Len(slices[wu])} : wu \in DOMAIN slices}

\* the regions of results held in the out-buffer
DoneRegions ==
    {[at |-> <<"outqueue", k>>, k |-> k, n |-> Len(outqueue[k])] : k \in DOMAIN outqueue}

Regions == PendingRegions \cup FlightRegions \cup DoneRegions

\* the regions that hold the ingress index i
Holding(i) == {g \in Regions : g.k <= i /\ i < g.k + g.n}

\* C29 (conservation of work): every ingress index from out_idx up to, not
\* including, in_idx is held by exactly one region of the ingress queue, the
\* slice table or the out-buffer, and no region of any of the three reaches
\* below out_idx or beyond in_idx.
C29_Conservation ==
    /\ \A i \in out_idx..(in_idx - 1) : Cardinality(Holding(i)) = 1
    /\ \A g \in Regions : g.n > 0 => (out_idx <= g.k /\ g.k + g.n <= in_idx)

\* C29: two identical batches are outstanding under one key of the slice
\* table while a third region waits in the ingress queue and a fourth holds
\* results in the out-buffer
C29_Witness ==
    /\ \E wu \in DOMAIN slices : Len(slices[wu]) >= 2
    /\ \E g \in PendingRegions : g.n > 0
    /\ \E g \in DoneRegions : g.n > 0


\* the ingress indices of the passwords stored in one entry of the queue
EntryIdx(entry) ==
    UNION {k..(k + Len(entry.pwdict[k]) - 1) : k \in DOMAIN entry.pwdict}

\* the ingress indices of the passwords that wait in the queue q
QueueIdx(q) == UNION {EntryIdx(q[e]) : e \in 1..Len(q)}

\* the ESSID and the password that wait in the queue q at ingress index i
PwAt(q, i) ==
    LET e == CHOOSE x \in 1..Len(q) : i \in EntryIdx(q[x])
        k == CHOOSE x \in DOMAIN q[e].pwdict : x <= i /\ i < x + Len(q[e].pwdict[x])
    IN <<q[e].essid, q[e].pwdict[k][i - k + 1]>>

\* the ingress indices of a recording of fragments
FragIdx(frags) ==
    UNION {frags[f][1]..(frags[f][1] + frags[f][2] - 1) : f \in 1..Len(frags)}

\* the passwords that wait in the queue q at the indices of a recording,
\* fragment after fragment
RECURSIVE FragPws(_, _)
FragPws(q, frags) ==
    IF frags = <<>> THEN <<>>
    ELSE [j \in 1..Head(frags)[2] |-> PwAt(q, Head(frags)[1] + j - 1)[2]]
           \o FragPws(q, Tail(frags))

RECURSIVE FragSum(_)
FragSum(frags) ==
    IF frags = <<>> THEN 0 ELSE Head(frags)[2] + FragSum(Tail(frags))

\* C31 (gather size bound): a _gather(desired_size) that returns a batch
\* returns at least one and at most desired_size passwords, and the
\* recording it appends to the slice table under the batch has fragments,
\* each of length one or more, whose lengths sum to the batch length.
C31_GatherBound ==
    [][\A n \in 1..MaxBuf :
         LET g == Gather(inqueue, n)
             wu == <<g.essid, g.passwords>>
         IN (g.passwords # <<>> /\ inqueue' = g.queue
               /\ held' = held (+) SetToBag({wu})) =>
              /\ 1 <= Len(g.passwords)
              /\ Len(g.passwords) <= n
              /\ wu \in DOMAIN slices'
              /\ LET rec == slices'[wu][Len(slices'[wu])]
                 IN /\ FragSum(rec) = Len(g.passwords)
                    /\ \A f \in 1..Len(rec) : rec[f][2] >= 1]_vars

\* C31: a batch of two fragments was gathered while more passwords than
\* the desired size were waiting, the rest still in the queue
C31_Witness ==
    /\ \E wu \in DOMAIN slices : \E r \in 1..Len(slices[wu]) :
          Len(slices[wu][r]) = 2 /\ Len(wu[2]) = MaxBuf
    /\ \E g \in PendingRegions : g.n > 0


\* the sum of the numbers of a sequence
RECURSIVE SeqSum(_)
SeqSum(ns) == IF ns = <<>> THEN 0 ELSE Head(ns) + SeqSum(Tail(ns))

\* C32 (coalescing): an enqueue(essid, passwords) appends the entry
\* (essid, {in_idx: passwords}) and leaves the entries before it alone
\* exactly if the queue was empty or its last entry had another ESSID;
\* otherwise the number of entries stays, only the last entry changes, and
\* it gains the passwords under in_idx, the index that follows all indices
\* assigned before, keeping what it held.
C32_Coalesce ==
    [][n_enq' = n_enq + 1 =>
         LET essid == host_wus'[Len(host_wus')][1]
             passwordlist == host_wus'[Len(host_wus')][2]
             n == Len(inqueue)
         IN /\ in_idx = out_idx + SeqSum(workunits)
            /\ \A i \in QueueIdx(inqueue) : i < in_idx
            /\ IF n = 0 \/ inqueue[n].essid # essid
               THEN /\ Len(inqueue') = n + 1
                    /\ SubSeq(inqueue', 1, n) = inqueue
                    /\ inqueue'[n + 1] = [essid |-> essid,
                                          pwdict |-> DictPut(EmptyDict, in_idx, passwordlist)]
               ELSE /\ Len(inqueue') = n
                    /\ SubSeq(inqueue', 1, n - 1) = SubSeq(inqueue, 1, n - 1)
                    /\ inqueue'[n].essid = essid
                    /\ DOMAIN inqueue'[n].pwdict = DOMAIN inqueue[n].pwdict \cup {in_idx}
                    /\ inqueue'[n].pwdict[in_idx] = passwordlist
                    /\ \A k \in DOMAIN inqueue[n].pwdict \ {in_idx} :
                          inqueue'[n].pwdict[k] = inqueue[n].pwdict[k]
                    /\ \A i \in EntryIdx(inqueue[n]) :
                          PwAt(inqueue', i) = PwAt(inqueue, i)]_vars

\* C32: the queue has two entries and the last of them holds the passwords
\* of two enqueue calls under two indices
C32_Witness ==
    /\ Len(inqueue) >= 2
    /\ \E k1, k2 \in DOMAIN inqueue[Len(inqueue)].pwdict :
          /\ k1 < k2
          /\ Len(inqueue[Len(inqueue)].pwdict[k1]) > 0
          /\ Len(inqueue[Len(inqueue)].pwdict[k2]) > 0
    /\ slices = EmptyDict


\* C33 (out-buffer merging): the out-buffer never holds two result regions
\* that touch or overlap: a region of length L >= 1 that starts at index i
\* ends before every other region that starts above i, so none starts at
\* i + L or inside it.
C33_Merged ==
    \A i \in DOMAIN outqueue :
        Len(outqueue[i]) >= 1 =>
            \A j \in DOMAIN outqueue : j > i => i + Len(outqueue[i]) < j

\* C33: results scattered out of order were merged into one region longer
\* than any batch, and another region lies beyond a gap of indices that are
\* still in flight
C33_Witness ==
    \E i, j \in DOMAIN outqueue :
        /\ Len(outqueue[i]) > MaxBuf
        /\ i + Len(outqueue[i]) < j
        /\ Len(outqueue[j]) >= 1


\* C34 (empty enqueue): while the cores keep on, a dequeue(block=True,
\* timeout=None) that waits for the results of an enqueue of an empty
\* password list eventually returns them (the empty tuple).
C34_EmptyAnswered ==
    (hpc = "deq_wait" /\ workunits # <<>> /\ workunits[1] = 0)
        ~> (hpc = "idle" /\ ret.why = "results")


\* C35 (a rejected rpc_scatter changes nothing): a request of a registered
\* client that leaves the scheduler and the statistics of the NetworkCore
\* as they were, as an rpc_scatter does that raises for a bad digest or
\* size, leaves the client's list of outstanding workunits as it was too.
\* (The list without its last workunit is what rpc_revoke leaves and is
\* not counted here.)
C35_RejectedScatter ==
    [][\A n \in Clients :
         (/\ rpc = NoRpc /\ rpc' = NoRpc
          /\ n \in clients /\ n \in clients'
          /\ schedvars' = schedvars
          /\ resCount' = resCount)
           => \/ cl_workunits'[n] = cl_workunits[n]
              \/ cl_workunits'[n] = SubSeq(cl_workunits[n], 1, Len(cl_workunits[n]) - 1)]_vars


\* pending_clients without the uuid that belongs to results RPCServer.run
\* has dequeued and not yet popped the uuid for
PendingAhead ==
    IF spc = "pop" THEN SubSeq(pending_clients, 2, Len(pending_clients))
    ELSE pending_clients

\* the results of the first n workunits of wus
SolvedPrefix(wus, n) == [i \in 1..n |-> Solve(wus[i][1], wus[i][2])]

C37_Adapted ==
    [][(bpc = "adapt" /\ bpc' # "adapt") =>
          /\ bpc' = "gather"
          /\ bcompTime > 0
          /\ bbuffersize' = Adapted(coreclass, bbuffersize, bresCount, bcompTime)
          /\ coreclass.minBufferSize <= bbuffersize'
          /\ bbuffersize' <= coreclass.maxBufferSize]_vars


\* the key frame key of phase idx repeats a frame stored in frames: the
\* group of its ReplayCounter holds its ANonce (Frame 1, Frame 3) or its
\* (version, SNonce, MIC body, MIC) (Frame 2)
Repeats(frames, idx, key) ==
    LET rc == IF idx = 2 THEN key.ReplayCounter - 1 ELSE key.ReplayCounter
    IN /\ rc \in DOMAIN frames
       /\ IF idx = 1 THEN Response(key) \in DOMAIN frames[rc][2]
          ELSE key.Nonce \in DOMAIN frames[rc][idx + 1]

\* the key frames of the inputs that repeat a stored frame of their station
RepeatInputs ==
    {pckt \in PcktInputs :
        /\ pckt.key # NoKey
        /\ KeyPhase(pckt.key) # -1
        /\ Direction(pckt).ok
        /\ Direction(pckt).ap_mac \in DOMAIN air
        /\ Direction(pckt).sta_mac \in DOMAIN air[Direction(pckt).ap_mac].stations
        /\ Repeats(air[Direction(pckt).ap_mac].stations[Direction(pckt).sta_mac],
                   KeyPhase(pckt.key), pckt.key)}

\* C38 (de-duplication of key frames): whatever was parsed before, parsing
\* a key frame that repeats a stored frame of its ReplayCounter group
\* leaves the frames of every station, and so what getAuthentications
\* returns, as they are, and new_auth_callback is not called.
C38_Idempotent ==
    \A pckt \in RepeatInputs :
        LET d == Direction(pckt)
            r == ParseDot11(air, new_auths, pcktcount + 1, pckt)
        IN /\ r.air = air
           /\ r.new_auths = new_auths
           /\ GetAuthentications(r.air[d.ap_mac].stations[d.sta_mac])
                = GetAuthentications(air[d.ap_mac].stations[d.sta_mac])

\* C38: the frames of a whole handshake are stored from the packets 1, 2
\* and 4, the packet between them stored nothing, and each of the three
\* frames can be repeated
C38_Witness ==
    /\ pcktcount = MaxPckts
    /\ ApMac \in DOMAIN air
    /\ StaMac \in DOMAIN air[ApMac].stations
    /\ LET frames == air[ApMac].stations[StaMac]
       IN /\ DOMAIN frames = {1}
          /\ frames[1][1] = DictPut(EmptyDict, "A", 1)
          /\ DOMAIN frames[1][2] = {Response(Frame2(1, "M", 22).key)}
          /\ frames[1][3] = DictPut(EmptyDict, "A", 4)
    /\ {Frame1(1, "A"), Frame2(1, "M", 22), Frame3(2, "A")} \subseteq RepeatInputs


\* the authentications getAuthentications builds from the frames of a
\* station, before they are sorted
AllAuths(frames) ==
    UNION {BuildAuthentications(frames[rc][1], frames[rc][2], frames[rc][3])
             : rc \in DOMAIN frames}

\* C39 (callback consistency): whatever was parsed before, every
\* authentication that parsing a packet passes to new_auth_callback is one
\* of the authentications getAuthentications of its station returns then,
\* with the same frames and quality.
C39_Consistent ==
    \A pckt \in PcktInputs :
        LET r == ParseDot11(air, EmptyBag, pcktcount + 1, pckt)
        IN \A c \in DOMAIN r.new_auths :
              c[3] \in AllAuths(r.air[c[1]].stations[c[2]])

\* s begins with p
StartsWith(s, p) == Len(p) <= Len(s) /\ SubSeq(s, 1, Len(p)) = p

\* C40: when close() has returned and the file handle raised nothing, the
\* writer's thread has stopped and the file handle holds, in the order of
\* the calls, all that was taken by the write() calls that returned before
\* close() was called.
C40_CloseFlushes ==
    (lastcall = <<"close", "returned">> /\ ~failed)
        => (hasstopped /\ StartsWith(filehndl, atclose))

\* the same of a close() that was called when nothing had told the writer
\* to stop
CloseFlushesRunning ==
    (lastcall = <<"close", "returned">> /\ ~failed /\ wasrunning)
        => (hasstopped /\ filehndl = atclose)

====
